---- MODULE Spec2Model ----
(***************************************************************************)
(* Graph-storage adapters of graphiti_core.database: Neo4jAdapter and      *)
(* SurrealDBAdapter behind GraphDBInterface.  One adapter instance talks   *)
(* to one backend server.  Every action is one whole adapter method; the   *)
(* native driver / client and the server are the environment: each native  *)
(* call either returns or raises, chosen by the action's inputs.           *)
(*                                                                         *)
(* Spec:        one adapter object, its methods called one after another.  *)
(* FactorySpec: DatabaseFactory, the configuration objects that choose a    *)
(*              backend, and the adapter objects the factory constructs.   *)
(* SessionSpec: two callers of one Neo4jAdapter, interleaved at the awaits *)
(*              of its methods.                                            *)
(* ClientSpec:  two callers of one SurrealDBAdapter, interleaved at the    *)
(*              awaits of its methods.                                     *)
(* EnvelopeSpec: get_episodes and get_one_episode of SurrealDBAdapter on   *)
(*              every shape of response the client can return.             *)
(***************************************************************************)
EXTENDS Integers, Sequences, FiniteSets, TLC

(* ------------------------------ bounds -------------------------------- *)
\* number of adapter and configuration method calls in one behaviour
MaxCalls == 3
\* number of native driver / client objects constructed in one behaviour
MaxHandles == 2
\* the injected transport failure hits the k-th native call of a method
\* for some k in 1..MaxFailAt (0: no transport failure)
MaxFailAt == 3
\* created_at values an Episode write may carry
MaxTime == 2
\* a cancellation hits the k-th native call of a method for some k in
\* 1..MaxCancelAt
MaxCancelAt == 1
\* number of adapter instances the factory constructs in one behaviour
MaxInstances == 2
\* number of Neo4j sessions opened in one behaviour of concurrent calls
MaxSessions == 3
\* length of the result array in a response of the SurrealDB client
MaxRows == 2

(* ----------------------------- vocabulary ----------------------------- *)
\* Python's None for the driver / client attribute
None == 0

Backends == {"neo4j", "surrealdb"}

\* whether the SurrealDB client's methods return resolved values or awaitables
ClientShapes == {"resolved", "awaitable"}

EpisodeIds == {"ep-1", "ep-2"}
Times == 1..MaxTime

NoError == [cls |-> "", text |-> ""]

\* exceptions the native driver / client can raise: neo4j.exceptions.DriverError
\* (e.g. ServiceUnavailable), neo4j.exceptions.ClientError (e.g. AuthError),
\* and any other exception (OSError, ValueError, ...)
NativeErrors ==
  { [cls |-> "DriverError", text |-> "service unavailable"],
    [cls |-> "ClientError", text |-> "unauthorized"],
    [cls |-> "OtherError", text |-> "connection reset"] }

\* asyncio.CancelledError, raised into the task at the await of a native call
Cancelled == [cls |-> "CancelledError", text |-> ""]

ClosedError == [cls |-> "OtherError", text |-> "closed"]
SyntaxError == [cls |-> "ClientError", text |-> "syntax error"]
DuplicateError == [cls |-> "ClientError", text |-> "already exists"]

\* a statement handed to session.run / client.query
Stmt(verb, ent, field, arg, t) ==
  [verb |-> verb, ent |-> ent, field |-> field, arg |-> arg, t |-> t]

\* a schema object present on the server
Obj(ent, field, kind) == [ent |-> ent, field |-> field, kind |-> kind]

\* an Episode record: the four attributes of the contract's Episode
Episode(id, t) ==
  [id |-> id, created_at |-> t, title |-> << "title", id >>, summary |-> << "summary", id >>]

(* ------------------------- statements sent ---------------------------- *)
\* the statements without IF NOT EXISTS
Neo4jSchemaStatements_NoIfNotExists ==
  << Stmt("CREATE_CONSTRAINT", "Episode", "id", "unique", 0),
     Stmt("CREATE_CONSTRAINT", "Message", "id", "unique", 0),
     Stmt("CREATE_CONSTRAINT", "Entity", "id", "unique", 0),
     Stmt("CREATE_CONSTRAINT", "Message", "timestamp", "notnull", 0),
     Stmt("CREATE_CONSTRAINT", "Episode", "created_at", "notnull", 0),
     Stmt("CREATE_INDEX", "Episode", "created_at", "index", 0),
     Stmt("CREATE_INDEX", "Message", "timestamp", "index", 0),
     Stmt("CREATE_INDEX", "Message", "role", "index", 0),
     Stmt("CREATE_INDEX", "Entity", "type", "index", 0),
     Stmt("CREATE_INDEX", "Entity", "name", "index", 0) >>

\* Neo4jAdapter.build_indices: the constraint and index statements, in order
Neo4jSchemaStatements ==
  << Stmt("CREATE_CONSTRAINT_IF_NOT_EXISTS", "Episode", "id", "unique", 0),
     Stmt("CREATE_CONSTRAINT_IF_NOT_EXISTS", "Message", "id", "unique", 0),
     Stmt("CREATE_CONSTRAINT_IF_NOT_EXISTS", "Entity", "id", "unique", 0),
     Stmt("CREATE_CONSTRAINT_IF_NOT_EXISTS", "Message", "timestamp", "notnull", 0),
     Stmt("CREATE_CONSTRAINT_IF_NOT_EXISTS", "Episode", "created_at", "notnull", 0),
     Stmt("CREATE_INDEX_IF_NOT_EXISTS", "Episode", "created_at", "index", 0),
     Stmt("CREATE_INDEX_IF_NOT_EXISTS", "Message", "timestamp", "index", 0),
     Stmt("CREATE_INDEX_IF_NOT_EXISTS", "Message", "role", "index", 0),
     Stmt("CREATE_INDEX_IF_NOT_EXISTS", "Entity", "type", "index", 0),
     Stmt("CREATE_INDEX_IF_NOT_EXISTS", "Entity", "name", "index", 0) >>

\* Neo4jAdapter.build_indices, delete_existing: CALL apoc.schema.assert({}, {}, true)
\* a reset that deletes the nodes
Neo4jSchemaReset_DeletesData == Stmt("MATCH_DETACH_DELETE_ALL", "", "", "", 0)
Neo4jSchemaReset == Stmt("APOC_SCHEMA_ASSERT_DROP_ALL", "", "", "", 0)

\* Neo4jAdapter.clear_all_data: MATCH (n) DETACH DELETE n
Neo4jDeleteAll == Stmt("MATCH_DETACH_DELETE_ALL", "", "", "", 0)

\* Neo4jAdapter.get_episodes: MATCH (e:Episode) RETURN e ORDER BY e.created_at DESC
\* the MATCH without ORDER BY
Neo4jMatchEpisodes_NoOrder == Stmt("SELECT_EPISODES", "Episode", "", "", 0)
Neo4jMatchEpisodes == Stmt("SELECT_EPISODES_ORDER_DESC", "Episode", "created_at", "", 0)

\* Neo4jAdapter.get_one_episode: MATCH (e:Episode {id: $episode_id}) RETURN e
Neo4jMatchOneEpisode(episode_id) == Stmt("SELECT_EPISODE_BY_ID", "Episode", "id", episode_id, 0)

\* SurrealDBAdapter.build_indices: schema_queries, in order
SurrealSchemaQueries ==
  << Stmt("DEFINE_TABLE", "Episode", "", "table", 0),
     Stmt("DEFINE_TABLE", "Message", "", "table", 0),
     Stmt("DEFINE_TABLE", "Entity", "", "table", 0),
     Stmt("DEFINE_TABLE", "MENTIONS", "", "table", 0),
     Stmt("DEFINE_TABLE", "HAS_MESSAGE", "", "table", 0),
     Stmt("DEFINE_TABLE", "REFERS_TO", "", "table", 0),
     Stmt("DEFINE_FIELD", "Episode", "id", "type:string", 0),
     Stmt("DEFINE_FIELD", "Episode", "created_at", "type:datetime", 0),
     Stmt("DEFINE_FIELD", "Episode", "title", "type:string", 0),
     Stmt("DEFINE_FIELD", "Episode", "summary", "type:string", 0),
     Stmt("DEFINE_FIELD", "Message", "id", "type:string", 0),
     Stmt("DEFINE_FIELD", "Message", "timestamp", "type:datetime", 0),
     Stmt("DEFINE_FIELD", "Message", "role", "type:string", 0),
     Stmt("DEFINE_FIELD", "Message", "content", "type:string", 0),
     Stmt("DEFINE_FIELD", "Entity", "id", "type:string", 0),
     Stmt("DEFINE_FIELD", "Entity", "type", "type:string", 0),
     Stmt("DEFINE_FIELD", "Entity", "name", "type:string", 0),
     Stmt("DEFINE_FIELD", "Entity", "properties", "type:object", 0),
     Stmt("DEFINE_INDEX", "Episode", "id", "unique", 0),
     Stmt("DEFINE_INDEX", "Episode", "created_at", "index", 0),
     Stmt("DEFINE_INDEX", "Message", "id", "unique", 0),
     Stmt("DEFINE_INDEX", "Message", "timestamp", "index", 0),
     Stmt("DEFINE_INDEX", "Message", "role", "index", 0),
     Stmt("DEFINE_INDEX", "Entity", "id", "unique", 0),
     Stmt("DEFINE_INDEX", "Entity", "type", "index", 0),
     Stmt("DEFINE_INDEX", "Entity", "name", "index", 0) >>

\* the table list without Episode
SurrealTables_NoEpisode == << "Message", "Entity", "MENTIONS", "HAS_MESSAGE", "REFERS_TO" >>

\* SurrealDBAdapter.clear_all_data: the tables removed, in order
SurrealTables == << "Episode", "Message", "Entity", "MENTIONS", "HAS_MESSAGE", "REFERS_TO" >>

\* SurrealDBAdapter.clear_all_data: REMOVE TABLE {table} for each table
SurrealRemoveStatements ==
  [i \in 1..Len(SurrealTables) |-> Stmt("REMOVE_TABLE", SurrealTables[i], "", "", 0)]

\* SurrealDBAdapter.get_episodes: SELECT * FROM Episode ORDER BY created_at DESC
SurrealSelectEpisodes == Stmt("SELECT_EPISODES_ORDER_DESC", "Episode", "created_at", "", 0)

\* SurrealDBAdapter.get_one_episode: SELECT * FROM Episode WHERE id = $episode_id LIMIT 1
SurrealSelectOneEpisode(episode_id) == Stmt("SELECT_EPISODE_BY_ID", "Episode", "id", episode_id, 0)

\* SurrealDBAdapter.connect: client.signin(...), client.use(namespace, database)
SurrealSignin == Stmt("SIGNIN", "", "", "", 0)
SurrealUse == Stmt("USE", "graphiti", "graphiti", "", 0)

\* the queries a caller passes to execute_query: the trivial reachability
\* query, an Episode write, and a query the server rejects
TrivialQuery == Stmt("RETURN_1", "", "", "", 0)
WriteEpisode(id, t) == Stmt("WRITE_EPISODE", "Episode", "id", id, t)
BadQuery == Stmt("BAD_SYNTAX", "", "", "", 0)
CallerQueries ==
  {TrivialQuery, BadQuery} \cup {WriteEpisode(id, t) : id \in EpisodeIds, t \in Times}

(* ------------------------------ server -------------------------------- *)
\* the listings of a set of Episodes: every Episode once, in any order
Listings(S) ==
  { s \in [1..Cardinality(S) -> S] : \A i, j \in 1..Cardinality(S) : i # j => s[i] # s[j] }

\* the listings of a set of Episodes in created_at descending order
\* (Episodes with equal created_at come in either order)
SortedDesc(S) ==
  { s \in Listings(S) :
      \A i, j \in 1..Cardinality(S) : i < j => s[i].created_at >= s[j].created_at }

\* the sequences of at most one element drawn from S (LIMIT 1)
AtMostOne(S) == IF S = {} THEN { <<>> } ELSE { <<e>> : e \in S }

\* what the server does with one statement: the error it raises (NoError if
\* none), the schema objects and Episodes present afterwards, and the row
\* listings it may return
ServerExec(backend, stmt, sch, st) ==
  LET same(rowsSet) == [err |-> NoError, schema |-> sch, store |-> st, rowsSet |-> rowsSet]
      fail(e) == [err |-> e, schema |-> sch, store |-> st, rowsSet |-> { <<>> }]
      obj == Obj(stmt.ent, stmt.field, stmt.arg)
  IN CASE stmt.verb \in {"RETURN_1", "SIGNIN", "USE"} -> same({ <<>> })
       [] stmt.verb = "BAD_SYNTAX" -> fail(SyntaxError)
       [] stmt.verb \in {"CREATE_CONSTRAINT_IF_NOT_EXISTS", "CREATE_INDEX_IF_NOT_EXISTS",
                         "DEFINE_TABLE", "DEFINE_FIELD", "DEFINE_INDEX"} ->
            [err |-> NoError, schema |-> sch \cup {obj}, store |-> st, rowsSet |-> { <<>> }]
       [] stmt.verb \in {"CREATE_CONSTRAINT", "CREATE_INDEX"} ->
            IF obj \in sch THEN fail(DuplicateError)
            ELSE [err |-> NoError, schema |-> sch \cup {obj}, store |-> st, rowsSet |-> { <<>> }]
       [] stmt.verb = "APOC_SCHEMA_ASSERT_DROP_ALL" ->
            [err |-> NoError, schema |-> {}, store |-> st, rowsSet |-> { <<>> }]
       [] stmt.verb = "MATCH_DETACH_DELETE_ALL" ->
            [err |-> NoError, schema |-> sch, store |-> {}, rowsSet |-> { <<>> }]
       [] stmt.verb = "REMOVE_TABLE" ->
            [err |-> NoError,
             schema |-> {o \in sch : o.ent # stmt.ent},
             store |-> IF stmt.ent = "Episode" THEN {} ELSE st,
             rowsSet |-> { <<>> }]
       [] stmt.verb = "WRITE_EPISODE" ->
            IF /\ \E e \in st : e.id = stmt.arg
               /\ (backend = "surrealdb" \/ Obj("Episode", "id", "unique") \in sch)
            THEN fail(DuplicateError)
            ELSE [err |-> NoError, schema |-> sch,
                  store |-> st \cup {Episode(stmt.arg, stmt.t)}, rowsSet |-> { <<>> }]
       [] stmt.verb = "SELECT_EPISODES_ORDER_DESC" -> same(SortedDesc(st))
       [] stmt.verb = "SELECT_EPISODES" -> same(Listings(st))
       [] stmt.verb = "SELECT_EPISODE_BY_ID" ->
            same(IF backend = "surrealdb"
                 THEN AtMostOne({e \in st : e.id = stmt.arg})
                 ELSE SortedDesc({e \in st : e.id = stmt.arg}))
       [] OTHER -> fail(SyntaxError)

\* no transport failure injected into a method call
NoFault == [at |-> 0, err |-> NoError]

\* what a lost connection makes the driver / client raise
TransportError == [cls |-> "DriverError", text |-> "service unavailable"]

\* the cancellations a method call can meet: the await of native call
\* number `at` raises CancelledError
Cancellations == { [at |-> k, err |-> Cancelled] : k \in 1..MaxCancelAt }

\* the transport failures and cancellations a method call can meet: native
\* call number `at` raises `err`
Faults ==
  {NoFault} \cup { [at |-> k, err |-> TransportError] : k \in 1..MaxFailAt } \cup Cancellations

\* the transport failures of a method that makes at most n native calls
FaultsUpTo(n) == { f \in Faults : f.at <= n }

\* the failures of the native calls of connect: a lost connection, rejected
\* credentials, any other exception, or a cancellation
ConnectFaults(n) ==
  {NoFault} \cup { [at |-> k, err |-> e] : k \in 1..n, e \in NativeErrors }
            \cup { f \in Cancellations : f.at <= n }

\* run statements one after the other on an open session / client until one
\* raises; acc carries the error, the server state and the statements sent
RECURSIVE RunAll(_, _, _, _)
RunAll(backend, stmts, fault, acc) ==
  IF stmts = <<>> \/ acc.err # NoError THEN acc
  ELSE LET s == Head(stmts)
           n == Len(acc.sent) + 1
           r == IF fault.at = n
                THEN [err |-> fault.err, schema |-> acc.schema, store |-> acc.store,
                      rowsSet |-> { <<>> }]
                ELSE ServerExec(backend, s, acc.schema, acc.store)
       IN RunAll(backend, Tail(stmts), fault,
                 [err |-> r.err, schema |-> r.schema, store |-> r.store,
                  rowsSet |-> r.rowsSet, sent |-> Append(acc.sent, s)])

(* --------------------------- Python values ---------------------------- *)
\* an exception: its class and its message, kept as the parts concatenated
Exc(type, msg) == [type |-> type, msg |-> msg]
NoExc == Exc("", <<>>)

\* str(e) of a native exception is its text
StrOf(e) == << e.text >>

\* a native exception that escapes a method unchanged
Raw(e) == Exc(e.cls, StrOf(e))

\* `except DriverError`: ClientError (AuthError, ...) and other exceptions are
\* not subclasses of neo4j.exceptions.DriverError
IsDriverError(e) == e.cls = "DriverError"

\* a handler that catches BaseException
IsException_CatchesAll(e) == e # NoError

\* `except Exception`: asyncio.CancelledError derives from BaseException and is
\* not caught
IsException(e) == e # NoError /\ e.cls # "CancelledError"

NotConnectedNeo4j == Exc("ConnectionError", << "Not connected to Neo4j" >>)
NotConnectedSurreal == Exc("ConnectionError", << "Not connected to SurrealDB" >>)
FailedConnectNeo4j(msg) == Exc("ConnectionError", << "Failed to connect to Neo4j: " >> \o msg)
FailedConnectSurreal(msg) == Exc("ConnectionError", << "Failed to connect to SurrealDB: " >> \o msg)
QueryErrorNeo4j(msg) == Exc("Exception", << "Error executing Neo4j query: " >> \o msg)
\* the wrapper without the cause
QueryErrorSurreal_NoCause(msg) == Exc("Exception", << "Error executing SurrealDB query: ", "" >>)
QueryErrorSurreal(msg) == Exc("Exception", << "Error executing SurrealDB query: " >> \o msg)

\* `await x` where x is not awaitable
AwaitTypeError == Exc("TypeError", << "object can't be used in 'await' expression" >>)

\* hasattr(result, "__await__")
HasAwait(sh) == sh = "awaitable"

\* `await x`: the exception raised by the await itself
AwaitUnchecked(sh) == IF sh = "awaitable" THEN NoExc ELSE AwaitTypeError

\* `if hasattr(result, "__await__"): await result`: the exception raised by
\* the await itself
AwaitIfAwaitable(sh) == IF HasAwait(sh) THEN AwaitUnchecked(sh) ELSE NoExc

\* the spec's error taxonomy as the adapters raise it
IsNotConnected(x) ==
  /\ x.type = "ConnectionError"
  /\ x.msg \in { << "Not connected to Neo4j" >>, << "Not connected to SurrealDB" >> }
IsConnectionFailure(x) ==
  /\ x.type = "ConnectionError"
  /\ Len(x.msg) > 1
  /\ Head(x.msg) \in { "Failed to connect to Neo4j: ", "Failed to connect to SurrealDB: " }
IsQueryExecutionFailure(x) ==
  /\ x.type = "Exception"
  /\ Len(x.msg) > 1
  /\ Head(x.msg) \in { "Error executing Neo4j query: ", "Error executing SurrealDB query: " }
Contains(msg, text) == \E i \in 1..Len(msg) : msg[i] = text

\* what a method returns
Val(tag, h, rows) == [tag |-> tag, h |-> h, rows |-> rows]
NoVal == Val("", None, <<>>)
ReturnsNone == Val("None", None, <<>>)

(* ------------------------------- state -------------------------------- *)
VARIABLES
  kind,        \* the adapter class: Neo4jAdapter or SurrealDBAdapter
  shape,       \* whether the installed SurrealDB client is sync or async
  driver,      \* self.driver / self.client: None or a native handle
  scope,       \* self.namespace, self.database (SurrealDBAdapter)
  nextHandle,  \* the next native handle the driver library constructs
  opened,      \* the native handles constructed and not closed
  schema,      \* the schema objects present on the server
  store,       \* the Episodes stored on the server
  phase,       \* what the last connect / close did (history)
  calls,       \* the number of method calls made (history)
  last,        \* the last method call: inputs, statements sent, outcome
  instances,   \* the adapter objects DatabaseFactory has constructed
  self,        \* which of them the method calls are made on (0: none of them)
  made,        \* the call of DatabaseFactory made since the last method call
  tasks,       \* concurrent callers of one Neo4jAdapter: where each one's call is
  sessions,    \* the Neo4j sessions that are open
  nextSession, \* the next session the driver constructs
  handed       \* the sessions get_session has returned to callers

vars ==
  << kind, shape, driver, scope, nextHandle, opened, schema, store, phase, calls, last,
     instances, self, made, tasks, sessions, nextSession, handed >>

\* the state of the concurrent callers
sessionVars == << tasks, sessions, nextSession, handed >>

\* the concurrent callers of one adapter object
Tasks == {"a", "b"}

\* a caller's position: pc is "idle" between calls, "entered" inside
\* `async with ... as session` with `left` awaits still to complete,
\* "exiting" at the await of the session's close, "closing" at the await of
\* driver.close(); result is what its last call returned or raised
NoResult == [op |-> "", exc |-> NoExc, value |-> NoVal, session |-> 0, opens |-> 0]
IdleTask ==
  [pc |-> "idle", op |-> "", session |-> 0, handle |-> None, left |-> 0, exc |-> NoExc,
   opens |-> 0, result |-> NoResult]

\* no concurrent callers
NoTasks ==
  /\ tasks = [t \in Tasks |-> IdleTask]
  /\ sessions = {}
  /\ nextSession = 1
  /\ handed = {}

\* a call of DatabaseFactory: the function, its argument, what it raised, the
\* class it chose and the position of the instance it constructed
Made(fn, db_type, exc, cls, inst) ==
  [fn |-> fn, db_type |-> db_type, exc |-> exc, cls |-> cls, inst |-> inst]
NoMade == Made("", "", NoExc, "", 0)

\* the record of one method call
\* (native: the exception the driver / client raised inside the call;
\* response: the envelope the client returned, where the call records it;
\* pre...: the state the call started in; prev: the call before it)
Call(op, arg, fault, sent, native, exc, value) ==
  [op |-> op, arg |-> arg, fault |-> fault, sent |-> sent, native |-> native,
   exc |-> exc, value |-> value, response |-> <<>>,
   preDriver |-> driver, prePhase |-> phase, preOpen |-> (driver \in opened),
   preStore |-> store, preSchema |-> schema,
   prev |-> [op |-> last.op, arg |-> last.arg, ok |-> (last.exc = NoExc),
             hadData |-> (last.preStore # {})]]

\* the record before any method call
InitialCall ==
  [op |-> "__init__", arg |-> "", fault |-> NoFault, sent |-> <<>>,
   native |-> NoError, exc |-> NoExc, value |-> NoVal, response |-> <<>>,
   preDriver |-> None, prePhase |-> "fresh", preOpen |-> FALSE,
   preStore |-> store, preSchema |-> schema,
   prev |-> [op |-> "", arg |-> "", ok |-> TRUE, hadData |-> FALSE]]

\* the Episodes a server may hold when the adapter is constructed: none, or
\* three with distinct created_at written by an earlier run
InitialStores ==
  { {}, {Episode("ep-1", 1), Episode("ep-7", 2), Episode("ep-9", MaxTime + 1)} }

\* the schema objects of a server on which build_indices(False) has run
ProvisionedSchema(backend) ==
  RunAll(backend,
         IF backend = "neo4j" THEN Neo4jSchemaStatements ELSE SurrealSchemaQueries,
         NoFault,
         [err |-> NoError, schema |-> {}, store |-> {}, rowsSet |-> { <<>> }, sent |-> <<>>]).schema

\* Neo4jAdapter.__init__ / SurrealDBAdapter.__init__; the server is new, or
\* holds the schema and the Episodes of an earlier run
Init ==
  /\ kind \in Backends
  /\ shape \in (IF kind = "neo4j" THEN {"awaitable"} ELSE ClientShapes)
  /\ driver = None
  /\ scope = "None"
  /\ nextHandle = 1
  /\ opened = {}
  /\ store \in InitialStores
  /\ schema = IF store = {} THEN {} ELSE ProvisionedSchema(kind)
  /\ phase = "fresh"
  /\ calls = 0
  /\ instances = <<>>
  /\ self = 0
  /\ made = NoMade
  /\ NoTasks
  /\ last = InitialCall

\* a native call on a closed driver / client raises: the first native call of
\* the method fails whatever the transport does
Effective(fault) ==
  IF driver # None /\ driver \notin opened THEN [at |-> 1, err |-> ClosedError] ELSE fault

\* the state of the server before the first statement of a method
Start == [err |-> NoError, schema |-> schema, store |-> store, rowsSet |-> { <<>> }, sent |-> <<>>]

\* one method call on the adapter: it touches no other adapter object
Step ==
  /\ calls < MaxCalls
  /\ calls' = calls + 1
  /\ made' = NoMade
  /\ UNCHANGED << instances, self >>
  /\ UNCHANGED sessionVars

\* history: a connect that fails on a Disconnected adapter, or on another one
FailedConnectPhase ==
  IF phase \in {"fresh", "closed", "connect_failed"} THEN "connect_failed"
  ELSE "reconnect_failed"

(* ------------------------------ connect ------------------------------- *)
\* Neo4jAdapter.connect.  ctorErr: what AsyncGraphDatabase.driver raises;
\* fault: what the probe session raises
Neo4jConnect(ctorErr, fault) ==
  /\ kind = "neo4j"
  /\ Step
  /\ UNCHANGED << kind, shape, scope, store >>
  /\ IF ctorErr # NoError
     THEN /\ fault = NoFault
          /\ last' = Call("connect", "", NoFault, <<>>, ctorErr,
                          IF IsDriverError(ctorErr) THEN FailedConnectNeo4j(StrOf(ctorErr))
                                                    ELSE Raw(ctorErr),
                          NoVal)
          /\ phase' = FailedConnectPhase
          /\ UNCHANGED << driver, nextHandle, opened, schema >>
     ELSE /\ nextHandle <= MaxHandles
          /\ driver' = nextHandle
          /\ nextHandle' = nextHandle + 1
          /\ opened' = opened \cup {nextHandle}
          /\ LET r == RunAll("neo4j", << TrivialQuery >>, fault, Start)
             IN /\ schema' = r.schema
                /\ phase' = IF r.err = NoError THEN "connected" ELSE FailedConnectPhase
                /\ last' = Call("connect", "", fault, r.sent, r.err,
                                IF r.err = NoError THEN NoExc
                                ELSE IF IsDriverError(r.err) THEN FailedConnectNeo4j(StrOf(r.err))
                                ELSE Raw(r.err),
                                IF r.err = NoError THEN ReturnsNone ELSE NoVal)

\* SurrealDBAdapter.connect.  ctorErr: what Surreal(uri) raises; fault: what
\* signin / use raise
SurrealConnect(ctorErr, fault) ==
  /\ kind = "surrealdb"
  /\ Step
  /\ UNCHANGED << kind, shape, store >>
  /\ scope' = "graphiti/graphiti"
  /\ IF ctorErr # NoError
     THEN /\ fault = NoFault
          /\ last' = Call("connect", "", NoFault, <<>>, ctorErr,
                          IF IsException(ctorErr) THEN FailedConnectSurreal(StrOf(ctorErr))
                                                  ELSE Raw(ctorErr),
                          NoVal)
          /\ phase' = FailedConnectPhase
          /\ UNCHANGED << driver, nextHandle, opened, schema >>
     ELSE /\ nextHandle <= MaxHandles
          /\ driver' = nextHandle
          /\ nextHandle' = nextHandle + 1
          /\ opened' = opened \cup {nextHandle}
          /\ LET r == RunAll("surrealdb", << SurrealSignin, SurrealUse >>, fault, Start)
                 awaited == AwaitIfAwaitable(shape)
                 \* the inner handler wraps, the outer handler wraps again
                 inner == IF IsException(r.err) THEN FailedConnectSurreal(StrOf(r.err))
                          ELSE IF r.err # NoError THEN Raw(r.err)
                          ELSE awaited
                 outer == IF r.err # NoError /\ ~IsException(r.err) THEN inner
                          ELSE IF inner # NoExc THEN FailedConnectSurreal(inner.msg)
                          ELSE NoExc
             IN /\ schema' = r.schema
                /\ phase' = IF outer = NoExc THEN "connected" ELSE FailedConnectPhase
                /\ last' = Call("connect", "", fault, r.sent, r.err, outer,
                                IF outer = NoExc THEN ReturnsNone ELSE NoVal)

Connect ==
  \/ \E ctorErr \in {NoError} \cup NativeErrors, fault \in ConnectFaults(1) :
       Neo4jConnect(ctorErr, fault)
  \/ \E ctorErr \in {NoError} \cup NativeErrors, fault \in ConnectFaults(2) :
       SurrealConnect(ctorErr, fault)

(* ------------------------------- close -------------------------------- *)
\* Neo4jAdapter.close
Neo4jClose ==
  /\ kind = "neo4j"
  /\ Step
  /\ UNCHANGED << kind, shape, scope, nextHandle, schema, store >>
  /\ IF driver # None
     THEN /\ opened' = opened \ {driver}
          /\ driver' = None
          /\ last' = Call("close", "", NoFault, << Stmt("CLOSE", "", "", "", 0) >>, NoError, NoExc,
                          ReturnsNone)
     ELSE /\ UNCHANGED << driver, opened >>
          /\ last' = Call("close", "", NoFault, <<>>, NoError, NoExc, ReturnsNone)
  /\ phase' = "closed"

\* SurrealDBAdapter.close: `await self.client.close()`
SurrealClose ==
  /\ kind = "surrealdb"
  /\ Step
  /\ UNCHANGED << kind, shape, scope, nextHandle, schema, store >>
  /\ IF driver # None
     THEN LET awaited == AwaitUnchecked(shape)
          IN /\ opened' = opened \ {driver}
             /\ driver' = IF awaited = NoExc THEN None ELSE driver
             /\ phase' = IF awaited = NoExc THEN "closed" ELSE "close_failed"
             /\ last' = Call("close", "", NoFault, << Stmt("CLOSE", "", "", "", 0) >>, NoError, awaited,
                             IF awaited = NoExc THEN ReturnsNone ELSE NoVal)
     ELSE /\ UNCHANGED << driver, opened >>
          /\ phase' = "closed"
          /\ last' = Call("close", "", NoFault, <<>>, NoError, NoExc, ReturnsNone)

Close == Neo4jClose \/ SurrealClose

(* ----------------------- get_driver / get_session --------------------- *)
\* Neo4jAdapter.get_driver
Neo4jGetDriver ==
  /\ kind = "neo4j"
  /\ Step
  /\ UNCHANGED << kind, shape, driver, scope, nextHandle, opened, schema, store, phase >>
  /\ last' = IF driver = None
             THEN Call("get_driver", "", NoFault, <<>>, NoError, NotConnectedNeo4j, NoVal)
             ELSE Call("get_driver", "", NoFault, <<>>, NoError, NoExc, Val("handle", driver, <<>>))

\* SurrealDBAdapter.get_driver
SurrealGetDriver ==
  /\ kind = "surrealdb"
  /\ Step
  /\ UNCHANGED << kind, shape, driver, scope, nextHandle, opened, schema, store, phase >>
  /\ last' = IF driver = None
             THEN Call("get_driver", "", NoFault, <<>>, NoError, NotConnectedSurreal, NoVal)
             ELSE Call("get_driver", "", NoFault, <<>>, NoError, NoExc, Val("handle", driver, <<>>))

\* Neo4jAdapter.get_session: a new session of the driver
Neo4jGetSession ==
  /\ kind = "neo4j"
  /\ Step
  /\ UNCHANGED << kind, shape, driver, scope, nextHandle, opened, schema, store, phase >>
  /\ last' = IF driver = None
             THEN Call("get_session", "", NoFault, <<>>, NoError, NotConnectedNeo4j, NoVal)
             ELSE Call("get_session", "", NoFault, <<>>, NoError, NoExc, Val("session", driver, <<>>))

\* get_session without the `if not self.client` guard
SurrealGetSession_NoGuard ==
  /\ kind = "surrealdb"
  /\ Step
  /\ UNCHANGED << kind, shape, driver, scope, nextHandle, opened, schema, store, phase >>
  /\ last' = Call("get_session", "", NoFault, <<>>, NoError, NoExc, Val("handle", driver, <<>>))

\* SurrealDBAdapter.get_session: the client itself
SurrealGetSession ==
  /\ kind = "surrealdb"
  /\ Step
  /\ UNCHANGED << kind, shape, driver, scope, nextHandle, opened, schema, store, phase >>
  /\ last' = IF driver = None
             THEN Call("get_session", "", NoFault, <<>>, NoError, NotConnectedSurreal, NoVal)
             ELSE Call("get_session", "", NoFault, <<>>, NoError, NoExc, Val("handle", driver, <<>>))

GetDriver == Neo4jGetDriver \/ SurrealGetDriver
GetSession == Neo4jGetSession \/ SurrealGetSession

(* ---------------------------- execute_query --------------------------- *)
\* execute_query that gives up the driver when the query fails
Neo4jExecuteQuery_DropsDriver(query, fault) ==
  /\ kind = "neo4j"
  /\ Step
  /\ UNCHANGED << kind, shape, scope, nextHandle, opened, phase >>
  /\ IF driver = None
     THEN /\ fault = NoFault
          /\ UNCHANGED << driver, schema, store >>
          /\ last' = Call("execute_query", query.verb, NoFault, <<>>, NoError, NotConnectedNeo4j, NoVal)
     ELSE LET r == RunAll("neo4j", << query >>, Effective(fault), Start)
          IN /\ schema' = r.schema
             /\ store' = r.store
             /\ driver' = IF IsException(r.err) THEN None ELSE driver
             /\ last' = Call("execute_query", query.verb, Effective(fault), r.sent, r.err,
                             IF IsException(r.err) THEN QueryErrorNeo4j(StrOf(r.err))
                             ELSE IF r.err # NoError THEN Raw(r.err)
                             ELSE NoExc,
                             IF r.err # NoError THEN NoVal ELSE Val("cursor", driver, <<>>))

\* Neo4jAdapter.execute_query
Neo4jExecuteQuery(query, fault) ==
  /\ kind = "neo4j"
  /\ Step
  /\ UNCHANGED << kind, shape, driver, scope, nextHandle, opened, phase >>
  /\ IF driver = None
     THEN /\ fault = NoFault
          /\ UNCHANGED << schema, store >>
          /\ last' = Call("execute_query", query.verb, NoFault, <<>>, NoError, NotConnectedNeo4j, NoVal)
     ELSE LET r == RunAll("neo4j", << query >>, Effective(fault), Start)
          IN /\ schema' = r.schema
             /\ store' = r.store
             /\ last' = Call("execute_query", query.verb, Effective(fault), r.sent, r.err,
                             IF IsException(r.err) THEN QueryErrorNeo4j(StrOf(r.err))
                             ELSE IF r.err # NoError THEN Raw(r.err)
                             ELSE NoExc,
                             IF r.err # NoError THEN NoVal ELSE Val("cursor", driver, <<>>))

\* SurrealDBAdapter.execute_query
SurrealExecuteQuery(query, fault) ==
  /\ kind = "surrealdb"
  /\ Step
  /\ UNCHANGED << kind, shape, driver, scope, nextHandle, opened, phase >>
  /\ IF driver = None
     THEN /\ fault = NoFault
          /\ UNCHANGED << schema, store >>
          /\ last' = Call("execute_query", query.verb, NoFault, <<>>, NoError, NotConnectedSurreal, NoVal)
     ELSE LET r == RunAll("surrealdb", << query >>, Effective(fault), Start)
              raised == IF r.err # NoError THEN Raw(r.err) ELSE AwaitIfAwaitable(shape)
          IN /\ schema' = r.schema
             /\ store' = r.store
             /\ last' = Call("execute_query", query.verb, Effective(fault), r.sent, r.err,
                             IF r.err # NoError /\ ~IsException(r.err) THEN raised
                             ELSE IF raised # NoExc THEN QueryErrorSurreal(raised.msg)
                             ELSE NoExc,
                             IF raised # NoExc THEN NoVal ELSE Val("envelope", None, <<>>))

ExecuteQuery ==
  \/ \E query \in CallerQueries, fault \in FaultsUpTo(1) : Neo4jExecuteQuery(query, fault)
  \/ \E query \in CallerQueries, fault \in FaultsUpTo(1) : SurrealExecuteQuery(query, fault)

(* ---------------------- build_indices / clear_all_data ----------------- *)
\* Neo4jAdapter.build_indices: the statements run in the one session
Neo4jBuildStatements(delete_existing) ==
  (IF delete_existing THEN << Neo4jSchemaReset >> ELSE <<>>) \o Neo4jSchemaStatements

\* Neo4jAdapter.build_indices
Neo4jBuildIndices(delete_existing, fault) ==
  /\ kind = "neo4j"
  /\ Step
  /\ UNCHANGED << kind, shape, driver, scope, nextHandle, opened, phase >>
  /\ IF driver = None
     THEN /\ fault = NoFault
          /\ UNCHANGED << schema, store >>
          /\ last' = Call("build_indices", ToString(delete_existing), NoFault, <<>>, NoError,
                          NotConnectedNeo4j, NoVal)
     ELSE LET r == RunAll("neo4j", Neo4jBuildStatements(delete_existing), Effective(fault), Start)
          IN /\ schema' = r.schema
             /\ store' = r.store
             /\ last' = Call("build_indices", ToString(delete_existing), Effective(fault), r.sent, r.err,
                             IF r.err # NoError THEN Raw(r.err) ELSE NoExc,
                             IF r.err # NoError THEN NoVal ELSE ReturnsNone)

\* the schema queries first, clear_all_data() after them
SurrealBuildStatements_ClearsLast(delete_existing) ==
  SurrealSchemaQueries \o (IF delete_existing THEN SurrealRemoveStatements ELSE <<>>)

\* SurrealDBAdapter.build_indices: clear_all_data() when delete_existing, then
\* every schema query
SurrealBuildStatements(delete_existing) ==
  (IF delete_existing THEN SurrealRemoveStatements ELSE <<>>) \o SurrealSchemaQueries

\* SurrealDBAdapter.build_indices
SurrealBuildIndices(delete_existing, fault) ==
  /\ kind = "surrealdb"
  /\ Step
  /\ UNCHANGED << kind, shape, driver, scope, nextHandle, opened, phase >>
  /\ IF driver = None
     THEN /\ fault = NoFault
          /\ UNCHANGED << schema, store >>
          /\ last' = Call("build_indices", ToString(delete_existing), NoFault, <<>>, NoError,
                          NotConnectedSurreal, NoVal)
     ELSE LET r == RunAll("surrealdb", SurrealBuildStatements(delete_existing),
                          Effective(fault), Start)
              raised == IF r.err # NoError THEN Raw(r.err) ELSE AwaitIfAwaitable(shape)
          IN /\ schema' = r.schema
             /\ store' = r.store
             /\ last' = Call("build_indices", ToString(delete_existing), Effective(fault), r.sent, r.err, raised,
                             IF raised # NoExc THEN NoVal ELSE ReturnsNone)

BuildIndices ==
  \/ \E delete_existing \in BOOLEAN, fault \in Faults : Neo4jBuildIndices(delete_existing, fault)
  \/ \E delete_existing \in BOOLEAN, fault \in Faults : SurrealBuildIndices(delete_existing, fault)

\* clear_all_data that swallows the failure of its statement
Neo4jClearAllData_SwallowsError(fault) ==
  /\ kind = "neo4j"
  /\ Step
  /\ UNCHANGED << kind, shape, driver, scope, nextHandle, opened, phase >>
  /\ IF driver = None
     THEN /\ fault = NoFault
          /\ UNCHANGED << schema, store >>
          /\ last' = Call("clear_all_data", "", NoFault, <<>>, NoError, NotConnectedNeo4j, NoVal)
     ELSE LET r == RunAll("neo4j", << Neo4jDeleteAll >>, Effective(fault), Start)
          IN /\ schema' = r.schema
             /\ store' = r.store
             /\ last' = Call("clear_all_data", "", Effective(fault), r.sent, r.err, NoExc, ReturnsNone)

\* Neo4jAdapter.clear_all_data
Neo4jClearAllData(fault) ==
  /\ kind = "neo4j"
  /\ Step
  /\ UNCHANGED << kind, shape, driver, scope, nextHandle, opened, phase >>
  /\ IF driver = None
     THEN /\ fault = NoFault
          /\ UNCHANGED << schema, store >>
          /\ last' = Call("clear_all_data", "", NoFault, <<>>, NoError, NotConnectedNeo4j, NoVal)
     ELSE LET r == RunAll("neo4j", << Neo4jDeleteAll >>, Effective(fault), Start)
          IN /\ schema' = r.schema
             /\ store' = r.store
             /\ last' = Call("clear_all_data", "", Effective(fault), r.sent, r.err,
                             IF r.err # NoError THEN Raw(r.err) ELSE NoExc,
                             IF r.err # NoError THEN NoVal ELSE ReturnsNone)

\* SurrealDBAdapter.clear_all_data
SurrealClearAllData(fault) ==
  /\ kind = "surrealdb"
  /\ Step
  /\ UNCHANGED << kind, shape, driver, scope, nextHandle, opened, phase >>
  /\ IF driver = None
     THEN /\ fault = NoFault
          /\ UNCHANGED << schema, store >>
          /\ last' = Call("clear_all_data", "", NoFault, <<>>, NoError, NotConnectedSurreal, NoVal)
     ELSE LET r == RunAll("surrealdb", SurrealRemoveStatements, Effective(fault), Start)
              raised == IF r.err # NoError THEN Raw(r.err) ELSE AwaitIfAwaitable(shape)
          IN /\ schema' = r.schema
             /\ store' = r.store
             /\ last' = Call("clear_all_data", "", Effective(fault), r.sent, r.err, raised,
                             IF raised # NoExc THEN NoVal ELSE ReturnsNone)

ClearAllData ==
  \/ \E fault \in FaultsUpTo(1) : Neo4jClearAllData(fault)
  \/ \E fault \in FaultsUpTo(Len(SurrealRemoveStatements)) : SurrealClearAllData(fault)

(* -------------------- get_episodes / get_one_episode ------------------- *)
\* bool(node): a neo4j Node is falsy when it has no properties
NodeTruthy(node) == DOMAIN node # {}

\* Neo4jAdapter.get_episodes: the rows of result.values() to attribute mappings
RECURSIVE Neo4jEpisodesOf(_)
Neo4jEpisodesOf(records) ==
  IF records = <<>> THEN <<>>
  ELSE LET record == Head(records)
       IN (IF record # <<>> /\ NodeTruthy(record[1]) THEN << record[1] >> ELSE <<>>)
          \o Neo4jEpisodesOf(Tail(records))

\* the conversion that returns the row instead of its node
Neo4jOneEpisodeOf_ReturnsRow(records) ==
  IF records # <<>> /\ records[1] # <<>> /\ NodeTruthy(records[1][1])
  THEN Val("record", None, << records[1] >>)
  ELSE ReturnsNone

\* Neo4jAdapter.get_one_episode: the first row's node, or None
Neo4jOneEpisodeOf(records) ==
  IF records # <<>> /\ records[1] # <<>> /\ NodeTruthy(records[1][1])
  THEN Val("record", None, << records[1][1] >>)
  ELSE ReturnsNone

\* result.values(): one row, holding the node, per Episode listed
ValuesOf(rows) == [i \in 1..Len(rows) |-> << rows[i] >>]

\* Neo4jAdapter.get_episodes
Neo4jGetEpisodes(fault) ==
  /\ kind = "neo4j"
  /\ Step
  /\ UNCHANGED << kind, shape, driver, scope, nextHandle, opened, phase >>
  /\ IF driver = None
     THEN /\ fault = NoFault
          /\ UNCHANGED << schema, store >>
          /\ last' = Call("get_episodes", "", NoFault, <<>>, NoError, NotConnectedNeo4j, NoVal)
     ELSE LET r == RunAll("neo4j", << Neo4jMatchEpisodes >>, Effective(fault), Start)
          IN /\ schema' = r.schema
             /\ store' = r.store
             /\ \E rows \in r.rowsSet :
                  last' = Call("get_episodes", "", Effective(fault), r.sent, r.err,
                               IF r.err # NoError THEN Raw(r.err) ELSE NoExc,
                               IF r.err # NoError THEN NoVal
                               ELSE Val("rows", None, Neo4jEpisodesOf(ValuesOf(rows))))

\* Neo4jAdapter.get_one_episode
Neo4jGetOneEpisode(episode_id, fault) ==
  /\ kind = "neo4j"
  /\ Step
  /\ UNCHANGED << kind, shape, driver, scope, nextHandle, opened, phase >>
  /\ IF driver = None
     THEN /\ fault = NoFault
          /\ UNCHANGED << schema, store >>
          /\ last' = Call("get_one_episode", episode_id, NoFault, <<>>, NoError, NotConnectedNeo4j, NoVal)
     ELSE LET r == RunAll("neo4j", << Neo4jMatchOneEpisode(episode_id) >>, Effective(fault), Start)
          IN /\ schema' = r.schema
             /\ store' = r.store
             /\ \E rows \in r.rowsSet :
                  last' = Call("get_one_episode", episode_id, Effective(fault), r.sent, r.err,
                               IF r.err # NoError THEN Raw(r.err) ELSE NoExc,
                               IF r.err # NoError THEN NoVal
                               ELSE Neo4jOneEpisodeOf(ValuesOf(rows)))

\* the response of client.query: a list of per-statement outcomes, each a
\* mapping that may carry a 'result' array
Outcome(isMapping, hasResult, isNull, rows) ==
  [isMapping |-> isMapping, hasResult |-> hasResult, isNull |-> isNull, rows |-> rows]
Envelope(isList, items) == [isList |-> isList, items |-> items]

\* the envelopes in which the client reports the rows of one SELECT
EnvelopesFor(rows) ==
  IF rows = <<>>
  THEN { Envelope(TRUE, <<>>),
         Envelope(TRUE, << Outcome(TRUE, FALSE, FALSE, <<>>) >>),
         Envelope(TRUE, << Outcome(TRUE, TRUE, FALSE, <<>>) >>) }
  ELSE { Envelope(TRUE, << Outcome(TRUE, TRUE, FALSE, rows) >>) }

AttributeError == Exc("AttributeError", << "object has no attribute 'get'" >>)

\* the unwrapping that indexes result[0]['result']
SurrealEpisodesOf_RequiresResultKey(result) ==
  IF result.isList /\ Len(result.items) > 0
  THEN LET first == result.items[1]
       IN IF ~first.isMapping THEN [exc |-> AttributeError, value |-> NoVal]
          ELSE IF ~first.hasResult
               THEN [exc |-> Exc("KeyError", << "result" >>), value |-> NoVal]
          ELSE IF first.isNull THEN [exc |-> NoExc, value |-> ReturnsNone]
          ELSE [exc |-> NoExc, value |-> Val("rows", None, first.rows)]
  ELSE [exc |-> NoExc, value |-> Val("rows", None, <<>>)]

\* SurrealDBAdapter.get_episodes: unwrapping of the response
SurrealEpisodesOf(result) ==
  IF result.isList /\ Len(result.items) > 0
  THEN LET first == result.items[1]
       IN IF ~first.isMapping THEN [exc |-> AttributeError, value |-> NoVal]
          ELSE IF ~first.hasResult THEN [exc |-> NoExc, value |-> Val("rows", None, <<>>)]
          ELSE IF first.isNull THEN [exc |-> NoExc, value |-> ReturnsNone]
          ELSE [exc |-> NoExc, value |-> Val("rows", None, first.rows)]
  ELSE [exc |-> NoExc, value |-> Val("rows", None, <<>>)]

\* the unwrapping that takes episodes[0] without checking for emptiness
SurrealOneEpisodeOf_NoEmptyCheck(result) ==
  IF result.isList /\ Len(result.items) > 0
  THEN LET first == result.items[1]
       IN IF ~first.isMapping THEN [exc |-> AttributeError, value |-> NoVal]
          ELSE IF first.hasResult /\ ~first.isNull /\ Len(first.rows) > 0
               THEN [exc |-> NoExc, value |-> Val("record", None, << first.rows[1] >>)]
               ELSE [exc |-> Exc("IndexError", << "list index out of range" >>), value |-> NoVal]
  ELSE [exc |-> NoExc, value |-> ReturnsNone]

\* SurrealDBAdapter.get_one_episode: unwrapping of the response
SurrealOneEpisodeOf(result) ==
  IF result.isList /\ Len(result.items) > 0
  THEN LET first == result.items[1]
       IN IF ~first.isMapping THEN [exc |-> AttributeError, value |-> NoVal]
          ELSE IF first.hasResult /\ ~first.isNull /\ Len(first.rows) > 0
               THEN [exc |-> NoExc, value |-> Val("record", None, << first.rows[1] >>)]
               ELSE [exc |-> NoExc, value |-> ReturnsNone]
  ELSE [exc |-> NoExc, value |-> ReturnsNone]

\* SurrealDBAdapter.get_episodes
SurrealGetEpisodes(fault) ==
  /\ kind = "surrealdb"
  /\ Step
  /\ UNCHANGED << kind, shape, driver, scope, nextHandle, opened, phase >>
  /\ IF driver = None
     THEN /\ fault = NoFault
          /\ UNCHANGED << schema, store >>
          /\ last' = Call("get_episodes", "", NoFault, <<>>, NoError, NotConnectedSurreal, NoVal)
     ELSE LET r == RunAll("surrealdb", << SurrealSelectEpisodes >>, Effective(fault), Start)
              raised == IF r.err # NoError THEN Raw(r.err) ELSE AwaitIfAwaitable(shape)
          IN /\ schema' = r.schema
             /\ store' = r.store
             /\ \E rows \in r.rowsSet : \E result \in EnvelopesFor(rows) :
                  LET u == SurrealEpisodesOf(result)
                  IN last' = Call("get_episodes", "", Effective(fault), r.sent, r.err,
                                  IF raised # NoExc THEN raised ELSE u.exc,
                                  IF raised # NoExc THEN NoVal ELSE u.value)

\* SurrealDBAdapter.get_one_episode
SurrealGetOneEpisode(episode_id, fault) ==
  /\ kind = "surrealdb"
  /\ Step
  /\ UNCHANGED << kind, shape, driver, scope, nextHandle, opened, phase >>
  /\ IF driver = None
     THEN /\ fault = NoFault
          /\ UNCHANGED << schema, store >>
          /\ last' = Call("get_one_episode", episode_id, NoFault, <<>>, NoError, NotConnectedSurreal, NoVal)
     ELSE LET r == RunAll("surrealdb", << SurrealSelectOneEpisode(episode_id) >>,
                          Effective(fault), Start)
              raised == IF r.err # NoError THEN Raw(r.err) ELSE AwaitIfAwaitable(shape)
          IN /\ schema' = r.schema
             /\ store' = r.store
             /\ \E rows \in r.rowsSet : \E result \in EnvelopesFor(rows) :
                  LET u == SurrealOneEpisodeOf(result)
                  IN last' = Call("get_one_episode", episode_id, Effective(fault), r.sent, r.err,
                                  IF raised # NoExc THEN raised ELSE u.exc,
                                  IF raised # NoExc THEN NoVal ELSE u.value)

GetEpisodes ==
  \/ \E fault \in FaultsUpTo(1) : Neo4jGetEpisodes(fault)
  \/ \E fault \in FaultsUpTo(1) : SurrealGetEpisodes(fault)

GetOneEpisode ==
  \/ \E episode_id \in EpisodeIds, fault \in FaultsUpTo(1) : Neo4jGetOneEpisode(episode_id, fault)
  \/ \E episode_id \in EpisodeIds, fault \in FaultsUpTo(1) : SurrealGetOneEpisode(episode_id, fault)

(* --------------------------- specification ---------------------------- *)
Next ==
  \/ Connect
  \/ Close
  \/ GetDriver
  \/ GetSession
  \/ ExecuteQuery
  \/ BuildIndices
  \/ ClearAllData
  \/ GetEpisodes
  \/ GetOneEpisode

Spec == Init /\ [][Next]_vars

TypeOK ==
  /\ kind \in Backends
  /\ shape \in ClientShapes
  /\ driver \in 0..MaxHandles
  /\ opened \subseteq 1..MaxHandles
  /\ calls \in 0..MaxCalls

(* ------------------------------ factory ------------------------------- *)
\* DatabaseType(str, Enum): a member compares equal to its value, and to no
\* other string
DatabaseType_NEO4J == "neo4j"
DatabaseType_SURREALDB == "surrealdb"

\* the values a caller passes as db_type
DbTypes == {"neo4j", "surrealdb", "NEO4J", "SurrealDB", "mongo"}

\* str.lower() on these values
Lower(db_type) ==
  CASE db_type = "NEO4J" -> "neo4j"
    [] db_type = "SurrealDB" -> "surrealdb"
    [] OTHER -> db_type

UnsupportedType(db_type) == Exc("ValueError", << "Unsupported database type: ", db_type >>)

\* the nine operations of GraphDBInterface
ContractOps ==
  { "connect", "close", "execute_query", "get_driver", "get_session", "build_indices",
    "clear_all_data", "get_episodes", "get_one_episode" }

\* the methods an adapter class defines (a class is named by its backend)
MethodsOf(cls) ==
  CASE cls = "neo4j" ->
         { "connect", "close", "get_driver", "get_session", "execute_query", "build_indices",
           "clear_all_data", "get_episodes", "get_one_episode" }
    [] cls = "surrealdb" ->
         { "connect", "close", "get_driver", "get_session", "execute_query", "build_indices",
           "clear_all_data", "get_episodes", "get_one_episode" }
    [] OTHER -> {}

\* the choice that falls back to Neo4jAdapter
AdapterFor_DefaultsToNeo4j(db_type) ==
  IF db_type = DatabaseType_SURREALDB THEN [exc |-> NoExc, cls |-> "surrealdb"]
  ELSE [exc |-> NoExc, cls |-> "neo4j"]

\* DatabaseFactory.create_db_adapter: the class instantiated for db_type
AdapterFor(db_type) ==
  IF db_type = DatabaseType_NEO4J THEN [exc |-> NoExc, cls |-> "neo4j"]
  ELSE IF db_type = DatabaseType_SURREALDB THEN [exc |-> NoExc, cls |-> "surrealdb"]
  ELSE [exc |-> UnsupportedType(db_type), cls |-> ""]

\* DatabaseFactory.get_adapter_class: the class returned for db_type
ClassFor(db_type) ==
  IF db_type = DatabaseType_NEO4J THEN [exc |-> NoExc, cls |-> "neo4j"]
  ELSE IF db_type = DatabaseType_SURREALDB THEN [exc |-> NoExc, cls |-> "surrealdb"]
  ELSE [exc |-> UnsupportedType(db_type), cls |-> ""]

\* the attributes of an adapter object
Attrs(k, d, sc, ph) == [kind |-> k, driver |-> d, scope |-> sc, phase |-> ph]

\* a constructor that takes the handle from a class-level attribute
NewAdapter_SharedHandle(cls) == Attrs(cls, driver, "None", "fresh")

\* Neo4jAdapter() / SurrealDBAdapter(): __init__ sets the handle to None
NewAdapter(cls) == Attrs(cls, None, "None", "fresh")

\* DatabaseFactory.create_db_adapter
CreateDbAdapter(db_type) ==
  /\ calls < MaxCalls
  /\ UNCHANGED sessionVars
  /\ UNCHANGED << kind, shape, driver, scope, nextHandle, opened, schema, store, phase, calls,
                  last, self >>
  /\ LET r == AdapterFor(db_type)
     IN IF r.exc = NoExc
        THEN /\ Len(instances) < MaxInstances
             /\ instances' = Append(instances, NewAdapter(r.cls))
             /\ made' = Made("create_db_adapter", db_type, NoExc, r.cls, Len(instances) + 1)
        ELSE /\ instances' = instances
             /\ made' = Made("create_db_adapter", db_type, r.exc, "", 0)

\* DatabaseFactory.get_adapter_class
GetAdapterClass(db_type) ==
  /\ calls < MaxCalls
  /\ UNCHANGED sessionVars
  /\ UNCHANGED << kind, shape, driver, scope, nextHandle, opened, schema, store, phase, calls,
                  last, self, instances >>
  /\ LET r == ClassFor(db_type)
     IN made' = Made("get_adapter_class", db_type, r.exc, r.cls, 0)

\* the functions of DatabaseFactory
FactoryFns == {"create_db_adapter", "get_adapter_class"}

\* the two configuration objects that name a backend
ConfigFns == {"Settings.get_db_type", "DatabaseConfig.get_db_type"}

\* a selection that compares the selector as it was written
SettingsGetDbType_CaseSensitive(database_type) ==
  IF database_type = "surrealdb" THEN DatabaseType_SURREALDB ELSE DatabaseType_NEO4J

\* Settings.get_db_type: database_type.lower() == 'surrealdb'
SettingsGetDbType(database_type) ==
  IF Lower(database_type) = "surrealdb" THEN DatabaseType_SURREALDB ELSE DatabaseType_NEO4J

\* DatabaseConfig.from_env: the db_type field is DATABASE_TYPE lower-cased
DatabaseConfigFromEnv(value) == Lower(value)

\* DatabaseConfig.get_db_type: db_type.lower() == 'surrealdb'
DatabaseConfigGetDbType(db_type) ==
  IF Lower(db_type) = "surrealdb" THEN DatabaseType_SURREALDB ELSE DatabaseType_NEO4J

\* Settings(database_type = selector).get_db_type(), counted among the calls
\* of the behaviour
SettingsSelect(selector) ==
  /\ calls < MaxCalls
  /\ UNCHANGED sessionVars
  /\ calls' = calls + 1
  /\ UNCHANGED << kind, shape, driver, scope, nextHandle, opened, schema, store, phase,
                  last, self, instances >>
  /\ made' = Made("Settings.get_db_type", selector, NoExc, SettingsGetDbType(selector), 0)

\* DatabaseConfig.get_db_type() on an object built by from_env (DATABASE_TYPE =
\* selector) or by the constructor (db_type = selector), counted among the
\* calls of the behaviour
DatabaseConfigSelect(selector, from_env) ==
  /\ calls < MaxCalls
  /\ UNCHANGED sessionVars
  /\ calls' = calls + 1
  /\ UNCHANGED << kind, shape, driver, scope, nextHandle, opened, schema, store, phase,
                  last, self, instances >>
  /\ LET db_type == IF from_env THEN DatabaseConfigFromEnv(selector) ELSE selector
     IN made' = Made("DatabaseConfig.get_db_type", selector, NoExc,
                     DatabaseConfigGetDbType(db_type), 0)

\* the caller turns to the adapter object at position i for its next calls
Use(i) ==
  /\ calls < MaxCalls
  /\ i \in 1..Len(instances)
  /\ i # self
  /\ self' = i
  /\ instances' = IF self = 0 THEN instances
                  ELSE [instances EXCEPT ![self] = Attrs(kind, driver, scope, phase)]
  /\ kind' = instances[i].kind
  /\ driver' = instances[i].driver
  /\ scope' = instances[i].scope
  /\ phase' = instances[i].phase
  /\ UNCHANGED sessionVars
  /\ UNCHANGED << shape, nextHandle, opened, schema, store, calls, last, made >>

\* the adapter object at position j as it is now
Instance(j) == IF j = self THEN Attrs(kind, driver, scope, phase) ELSE instances[j]

\* no adapter object exists yet; the server is new and the installed
\* SurrealDB client is the asynchronous one
FactoryInit ==
  /\ kind = "none"
  /\ shape = "awaitable"
  /\ driver = None
  /\ scope = "None"
  /\ nextHandle = 1
  /\ opened = {}
  /\ store = {}
  /\ schema = {}
  /\ phase = "fresh"
  /\ calls = 0
  /\ instances = <<>>
  /\ self = 0
  /\ made = NoMade
  /\ NoTasks
  /\ last = InitialCall

\* the calls of the factory and of the configuration objects, and connect,
\* close and clear_all_data on the adapter objects the factory constructed, the
\* server being reachable
FactoryNext ==
  \/ \E db_type \in DbTypes : CreateDbAdapter(db_type)
  \/ \E db_type \in DbTypes : GetAdapterClass(db_type)
  \/ \E selector \in DbTypes : SettingsSelect(selector)
  \/ \E selector \in DbTypes, from_env \in BOOLEAN : DatabaseConfigSelect(selector, from_env)
  \/ \E i \in 1..MaxInstances : Use(i)
  \/ Neo4jConnect(NoError, NoFault)
  \/ SurrealConnect(NoError, NoFault)
  \/ Neo4jClose
  \/ SurrealClose
  \/ Neo4jClearAllData(NoFault)
  \/ SurrealClearAllData(NoFault)

FactorySpec == FactoryInit /\ [][FactoryNext]_vars

(* ------------------ concurrent calls on a Neo4jAdapter ----------------- *)
\* Each step runs one caller from one suspension point (an await) to the
\* next; the callers share the adapter object and its driver.

\* what the concurrent callers leave alone
callVars == << kind, shape, scope, schema, store, phase, calls, last, instances, self, made >>

\* the methods that run statements inside `async with self.driver.session()`
SessionOps ==
  { "execute_query", "build_indices", "clear_all_data", "get_episodes", "get_one_episode" }

\* the awaits a method makes inside its session: session.run per statement,
\* and result.values() in get_episodes and get_one_episode
AwaitsOf(op, delete_existing) ==
  CASE op = "build_indices" -> Len(Neo4jBuildStatements(delete_existing))
    [] op \in {"get_episodes", "get_one_episode"} -> 2
    [] OTHER -> 1

\* a session kept and used again
NewSession_Reused == IF sessions # {} THEN CHOOSE s \in sessions : TRUE ELSE nextSession

\* self.driver.session(): a new session object
NewSession == nextSession

\* what a method raises when an await inside its session raises e
RaisedBy(op, e) ==
  CASE op = "execute_query" -> IF IsException(e) THEN QueryErrorNeo4j(StrOf(e)) ELSE Raw(e)
    [] op = "connect" -> IF IsDriverError(e) THEN FailedConnectNeo4j(StrOf(e)) ELSE Raw(e)
    [] OTHER -> Raw(e)

\* what a method returns when every await inside its session returned;
\* execute_query returns the cursor of its session
ReturnedBy(op, session) ==
  CASE op = "execute_query" -> Val("cursor", session, <<>>)
    [] op = "get_episodes" -> Val("rows", None, <<>>)
    [] OTHER -> ReturnsNone

Result(op, exc, value, session, opens) ==
  [op |-> op, exc |-> exc, value |-> value, session |-> session, opens |-> opens]

\* the caller is back from its call
Returned(t, result) == [tasks EXCEPT ![t] = [IdleTask EXCEPT !.result = result]]

\* the caller is inside `async with self.driver.session() as session`, at the
\* first await
Entered(t, op, handle, delete_existing) ==
  [tasks EXCEPT ![t] =
     [pc |-> "entered", op |-> op, session |-> NewSession, handle |-> handle,
      left |-> AwaitsOf(op, delete_existing), exc |-> NoExc, opens |-> 1, result |-> NoResult]]

\* Neo4jAdapter.connect up to the await of the probe
Neo4jConnectEnter(t, ctorErr) ==
  /\ kind = "neo4j"
  /\ tasks[t].pc = "idle"
  /\ UNCHANGED callVars
  /\ UNCHANGED handed
  /\ IF ctorErr # NoError
     THEN /\ tasks' = Returned(t, Result("connect", RaisedBy("connect", ctorErr), NoVal, 0, 0))
          /\ UNCHANGED << driver, nextHandle, opened, sessions, nextSession >>
     ELSE /\ nextHandle <= MaxHandles
          /\ nextSession <= MaxSessions
          /\ driver' = nextHandle
          /\ nextHandle' = nextHandle + 1
          /\ opened' = opened \cup {nextHandle}
          /\ sessions' = sessions \cup {NewSession}
          /\ nextSession' = nextSession + 1
          /\ tasks' = Entered(t, "connect", nextHandle, FALSE)

\* execute_query, build_indices, clear_all_data, get_episodes and
\* get_one_episode of Neo4jAdapter up to their first await
Neo4jEnter(t, op, delete_existing) ==
  /\ kind = "neo4j"
  /\ tasks[t].pc = "idle"
  /\ UNCHANGED callVars
  /\ UNCHANGED << driver, nextHandle, opened, handed >>
  /\ IF driver = None
     THEN /\ tasks' = Returned(t, Result(op, NotConnectedNeo4j, NoVal, 0, 0))
          /\ UNCHANGED << sessions, nextSession >>
     ELSE /\ nextSession <= MaxSessions
          /\ sessions' = sessions \cup {NewSession}
          /\ nextSession' = nextSession + 1
          /\ tasks' = Entered(t, op, driver, delete_existing)

\* an await inside the session completes: it returns, or raises err; on a
\* driver that has been closed it raises
Neo4jAwait(t, err) ==
  /\ kind = "neo4j"
  /\ tasks[t].pc = "entered"
  /\ UNCHANGED callVars
  /\ UNCHANGED << driver, nextHandle, opened, sessions, nextSession, handed >>
  /\ LET e == IF tasks[t].handle \notin opened THEN ClosedError ELSE err
     IN tasks' = [tasks EXCEPT ![t] =
                    IF e # NoError
                    THEN [@ EXCEPT !.pc = "exiting", !.exc = RaisedBy(tasks[t].op, e)]
                    ELSE IF tasks[t].left = 1
                    THEN [@ EXCEPT !.pc = "exiting", !.left = 0]
                    ELSE [@ EXCEPT !.left = tasks[t].left - 1]]

\* leaving `async with`: the session is closed, then the method returns or
\* raises
Neo4jExit(t) ==
  /\ kind = "neo4j"
  /\ tasks[t].pc = "exiting"
  /\ UNCHANGED callVars
  /\ UNCHANGED << driver, nextHandle, opened, nextSession, handed >>
  /\ sessions' = sessions \ {tasks[t].session}
  /\ tasks' = Returned(t, Result(tasks[t].op, tasks[t].exc,
                                 IF tasks[t].exc = NoExc
                                 THEN ReturnedBy(tasks[t].op, tasks[t].session) ELSE NoVal,
                                 tasks[t].session, tasks[t].opens))

\* Neo4jAdapter.close up to the await of driver.close()
Neo4jCloseEnter(t) ==
  /\ kind = "neo4j"
  /\ tasks[t].pc = "idle"
  /\ UNCHANGED callVars
  /\ UNCHANGED << driver, nextHandle, sessions, nextSession, handed >>
  /\ IF driver = None
     THEN /\ tasks' = Returned(t, Result("close", NoExc, ReturnsNone, 0, 0))
          /\ UNCHANGED opened
     ELSE /\ opened' = opened \ {driver}
          /\ tasks' = [tasks EXCEPT ![t] = [IdleTask EXCEPT !.pc = "closing", !.op = "close",
                                                          !.handle = driver]]

\* Neo4jAdapter.close after the await: self.driver = None
Neo4jCloseExit(t) ==
  /\ kind = "neo4j"
  /\ tasks[t].pc = "closing"
  /\ UNCHANGED callVars
  /\ UNCHANGED << nextHandle, opened, sessions, nextSession, handed >>
  /\ driver' = None
  /\ tasks' = Returned(t, Result("close", NoExc, ReturnsNone, 0, 0))

\* Neo4jAdapter.get_session: the new session goes to the caller
Neo4jGetSessionCall(t) ==
  /\ kind = "neo4j"
  /\ tasks[t].pc = "idle"
  /\ UNCHANGED callVars
  /\ UNCHANGED << driver, nextHandle, opened >>
  /\ IF driver = None
     THEN /\ tasks' = Returned(t, Result("get_session", NotConnectedNeo4j, NoVal, 0, 0))
          /\ UNCHANGED << sessions, nextSession, handed >>
     ELSE /\ nextSession <= MaxSessions
          /\ sessions' = sessions \cup {NewSession}
          /\ handed' = handed \cup {NewSession}
          /\ nextSession' = nextSession + 1
          /\ tasks' = Returned(t, Result("get_session", NoExc, Val("session", NewSession, <<>>),
                                         NewSession, 1))

\* one Neo4jAdapter, not connected, and its callers
SessionInit ==
  /\ kind = "neo4j"
  /\ shape = "awaitable"
  /\ driver = None
  /\ scope = "None"
  /\ nextHandle = 1
  /\ opened = {}
  /\ store = {}
  /\ schema = {}
  /\ phase = "fresh"
  /\ calls = 0
  /\ instances = <<>>
  /\ self = 0
  /\ made = NoMade
  /\ NoTasks
  /\ last = InitialCall

SessionNext ==
  \/ \E t \in Tasks, ctorErr \in {NoError, TransportError} : Neo4jConnectEnter(t, ctorErr)
  \/ \E t \in Tasks, op \in SessionOps, delete_existing \in BOOLEAN :
       /\ (delete_existing => op = "build_indices")
       /\ Neo4jEnter(t, op, delete_existing)
  \/ \E t \in Tasks, err \in {NoError, TransportError, Cancelled} : Neo4jAwait(t, err)
  \/ \E t \in Tasks : Neo4jExit(t)
  \/ \E t \in Tasks : Neo4jCloseEnter(t)
  \/ \E t \in Tasks : Neo4jCloseExit(t)
  \/ \E t \in Tasks : Neo4jGetSessionCall(t)

SessionSpec == SessionInit /\ [][SessionNext]_vars

(* ---------------- concurrent calls on a SurrealDBAdapter --------------- *)
\* Each step runs one caller from one suspension point to the next.  The
\* callers share the adapter object and its one client; a caller is suspended
\* only at the await of an awaitable the client returned, so with a client
\* that returns resolved values a method runs from entry to return in one step.

\* what the concurrent callers of the SurrealDB adapter leave alone
clientVars ==
  << kind, shape, scope, schema, store, phase, last, instances, self, made, sessions,
     nextSession, handed >>

\* the native calls a method makes on self.client, one after another
SurrealCallsOf(op, delete_existing) ==
  CASE op = "connect" -> Len(<< SurrealSignin, SurrealUse >>)
    [] op = "build_indices" -> Len(SurrealBuildStatements(delete_existing))
    [] op = "clear_all_data" -> Len(SurrealRemoveStatements)
    [] OTHER -> 1

\* `self.client.query(...)` / `self.client.use(...)` when self.client is None
NoneHasNoAttribute == [cls |-> "AttributeError", text |-> "'NoneType' object has no attribute"]

\* what a method raises when a native call inside it raises e: connect wraps
\* in its inner and again in its outer handler, execute_query wraps once
SurrealRaisedBy(op, e) ==
  CASE op = "connect" ->
         IF IsException(e) THEN FailedConnectSurreal(FailedConnectSurreal(StrOf(e)).msg)
         ELSE Raw(e)
    [] op = "execute_query" -> IF IsException(e) THEN QueryErrorSurreal(StrOf(e)) ELSE Raw(e)
    [] OTHER -> Raw(e)

\* what a method returns when every native call returned
SurrealReturnedBy(op) ==
  CASE op = "execute_query" -> Val("envelope", None, <<>>)
    [] op = "get_episodes" -> Val("rows", None, <<>>)
    [] OTHER -> ReturnsNone

\* the caller has issued a native call on client handle and is suspended at
\* its await; left counts this call and the ones the method makes after it
Awaiting(t, op, handle, left) ==
  [tasks EXCEPT ![t] =
     [IdleTask EXCEPT !.pc = "awaiting", !.op = op, !.handle = handle, !.left = left]]

\* the method runs to its end without a suspension: it raises for err, or
\* returns
Completed(t, op, err) ==
  Returned(t, Result(op, IF err # NoError THEN SurrealRaisedBy(op, err) ELSE NoExc,
                     IF err # NoError THEN NoVal ELSE SurrealReturnedBy(op), 0, 0))

\* SurrealDBAdapter.connect up to the await of signin
SurrealConnectEnter(t, ctorErr, err) ==
  /\ kind = "surrealdb"
  /\ tasks[t].pc = "idle"
  /\ calls < MaxCalls
  /\ calls' = calls + 1
  /\ UNCHANGED clientVars
  /\ IF ctorErr # NoError
     THEN /\ err = NoError
          /\ tasks' = Returned(t, Result("connect",
                                         IF IsException(ctorErr)
                                         THEN FailedConnectSurreal(StrOf(ctorErr))
                                         ELSE Raw(ctorErr), NoVal, 0, 0))
          /\ UNCHANGED << driver, nextHandle, opened >>
     ELSE /\ nextHandle <= MaxHandles
          /\ driver' = nextHandle
          /\ nextHandle' = nextHandle + 1
          /\ opened' = opened \cup {nextHandle}
          /\ IF HasAwait(shape)
             THEN /\ err = NoError
                  /\ tasks' = Awaiting(t, "connect", nextHandle, SurrealCallsOf("connect", FALSE))
             ELSE tasks' = Completed(t, "connect", err)

\* execute_query, build_indices, clear_all_data, get_episodes and
\* get_one_episode of SurrealDBAdapter up to the await of their first call
SurrealEnter(t, op, delete_existing, err) ==
  /\ kind = "surrealdb"
  /\ tasks[t].pc = "idle"
  /\ calls < MaxCalls
  /\ calls' = calls + 1
  /\ UNCHANGED clientVars
  /\ UNCHANGED << driver, nextHandle, opened >>
  /\ IF driver = None
     THEN /\ err = NoError
          /\ tasks' = Returned(t, Result(op, NotConnectedSurreal, NoVal, 0, 0))
     ELSE IF HasAwait(shape)
     THEN /\ err = NoError
          /\ tasks' = Awaiting(t, op, driver, SurrealCallsOf(op, delete_existing))
     ELSE tasks' = Completed(t, op, IF driver \in opened THEN err ELSE ClosedError)

\* the awaited native call completes: it raises err (on a client that has
\* been closed it raises), or it returns and the method issues its next call
\* on self.client as it is now, or returns
SurrealAwait(t, err) ==
  /\ kind = "surrealdb"
  /\ tasks[t].pc = "awaiting"
  /\ UNCHANGED clientVars
  /\ UNCHANGED << driver, nextHandle, opened, calls >>
  /\ LET e == IF tasks[t].handle \notin opened THEN ClosedError ELSE err
     IN tasks' = IF e # NoError THEN Completed(t, tasks[t].op, e)
                 ELSE IF tasks[t].left = 1 THEN Completed(t, tasks[t].op, NoError)
                 ELSE IF driver = None THEN Completed(t, tasks[t].op, NoneHasNoAttribute)
                 ELSE Awaiting(t, tasks[t].op, driver, tasks[t].left - 1)

\* SurrealDBAdapter.close up to `await self.client.close()`
SurrealCloseEnter(t) ==
  /\ kind = "surrealdb"
  /\ tasks[t].pc = "idle"
  /\ calls < MaxCalls
  /\ calls' = calls + 1
  /\ UNCHANGED clientVars
  /\ UNCHANGED << driver, nextHandle >>
  /\ IF driver = None
     THEN /\ tasks' = Returned(t, Result("close", NoExc, ReturnsNone, 0, 0))
          /\ UNCHANGED opened
     ELSE /\ opened' = opened \ {driver}
          /\ tasks' = IF HasAwait(shape)
                      THEN [tasks EXCEPT ![t] = [IdleTask EXCEPT !.pc = "closing", !.op = "close",
                                                                !.handle = driver]]
                      ELSE Returned(t, Result("close", AwaitUnchecked(shape), NoVal, 0, 0))

\* SurrealDBAdapter.close after the await: self.client = None
SurrealCloseExit(t) ==
  /\ kind = "surrealdb"
  /\ tasks[t].pc = "closing"
  /\ UNCHANGED clientVars
  /\ UNCHANGED << nextHandle, opened, calls >>
  /\ driver' = None
  /\ tasks' = Returned(t, Result("close", NoExc, ReturnsNone, 0, 0))

\* one SurrealDBAdapter, not connected, its client of either shape, and its
\* callers
ClientInit ==
  /\ kind = "surrealdb"
  /\ shape \in ClientShapes
  /\ driver = None
  /\ scope = "None"
  /\ nextHandle = 1
  /\ opened = {}
  /\ store = {}
  /\ schema = {}
  /\ phase = "fresh"
  /\ calls = 0
  /\ instances = <<>>
  /\ self = 0
  /\ made = NoMade
  /\ NoTasks
  /\ last = InitialCall

ClientNext ==
  \/ \E t \in Tasks, ctorErr \in {NoError, TransportError}, err \in {NoError, TransportError} :
       SurrealConnectEnter(t, ctorErr, err)
  \/ \E t \in Tasks, op \in SessionOps, delete_existing \in BOOLEAN,
        err \in {NoError, TransportError} :
       /\ (delete_existing => op = "build_indices")
       /\ SurrealEnter(t, op, delete_existing, err)
  \/ \E t \in Tasks, err \in {NoError, TransportError, Cancelled} : SurrealAwait(t, err)
  \/ \E t \in Tasks : SurrealCloseEnter(t)
  \/ \E t \in Tasks : SurrealCloseExit(t)

ClientSpec == ClientInit /\ [][ClientNext]_vars

(* ------------------- unwrapping of the client's response --------------- *)
\* get_episodes and get_one_episode of SurrealDBAdapter as functions of the
\* value client.query returns, whatever the server holds.

\* the records a response can carry
ResponseEpisodes == { Episode(id, 1) : id \in EpisodeIds }

\* the non-empty arrays of at most MaxRows records
RECURSIVE RowsUpTo(_)
RowsUpTo(n) ==
  IF n = 0 THEN {}
  ELSE LET shorter == RowsUpTo(n - 1)
       IN { << e >> : e \in ResponseEpisodes } \cup shorter
            \cup { Append(rows, e) : rows \in shorter, e \in ResponseEpisodes }

\* every shape of value client.query can return: a value that is not a list,
\* an empty list, and a list whose first element is not a mapping, or is a
\* mapping without the result key, with result null, with an empty array, or
\* with an array of records
AllEnvelopes ==
  { Envelope(FALSE, <<>>),
    Envelope(TRUE, <<>>),
    Envelope(TRUE, << Outcome(FALSE, FALSE, FALSE, <<>>) >>),
    Envelope(TRUE, << Outcome(TRUE, FALSE, FALSE, <<>>) >>),
    Envelope(TRUE, << Outcome(TRUE, TRUE, TRUE, <<>>) >>),
    Envelope(TRUE, << Outcome(TRUE, TRUE, FALSE, <<>>) >>) }
  \cup { Envelope(TRUE, << Outcome(TRUE, TRUE, FALSE, rows) >>) : rows \in RowsUpTo(MaxRows) }

\* SurrealDBAdapter.get_episodes, the client returning result
SurrealGetEpisodesOn(result) ==
  /\ kind = "surrealdb"
  /\ Step
  /\ UNCHANGED << kind, shape, driver, scope, nextHandle, opened, phase, schema, store >>
  /\ IF driver = None
     THEN last' = Call("get_episodes", "", NoFault, <<>>, NoError, NotConnectedSurreal, NoVal)
     ELSE LET awaited == AwaitIfAwaitable(shape)
              u == SurrealEpisodesOf(result)
          IN last' = [Call("get_episodes", "", NoFault, << SurrealSelectEpisodes >>, NoError,
                           IF awaited # NoExc THEN awaited ELSE u.exc,
                           IF awaited # NoExc THEN NoVal ELSE u.value)
                        EXCEPT !.response = << result >>]

\* SurrealDBAdapter.get_one_episode, the client returning result
SurrealGetOneEpisodeOn(episode_id, result) ==
  /\ kind = "surrealdb"
  /\ Step
  /\ UNCHANGED << kind, shape, driver, scope, nextHandle, opened, phase, schema, store >>
  /\ IF driver = None
     THEN last' = Call("get_one_episode", episode_id, NoFault, <<>>, NoError,
                       NotConnectedSurreal, NoVal)
     ELSE LET awaited == AwaitIfAwaitable(shape)
              u == SurrealOneEpisodeOf(result)
          IN last' = [Call("get_one_episode", episode_id, NoFault,
                           << SurrealSelectOneEpisode(episode_id) >>, NoError,
                           IF awaited # NoExc THEN awaited ELSE u.exc,
                           IF awaited # NoExc THEN NoVal ELSE u.value)
                        EXCEPT !.response = << result >>]

\* one SurrealDBAdapter, not connected, its client of either shape
EnvelopeInit ==
  /\ kind = "surrealdb"
  /\ shape \in ClientShapes
  /\ driver = None
  /\ scope = "None"
  /\ nextHandle = 1
  /\ opened = {}
  /\ store = {}
  /\ schema = {}
  /\ phase = "fresh"
  /\ calls = 0
  /\ instances = <<>>
  /\ self = 0
  /\ made = NoMade
  /\ NoTasks
  /\ last = InitialCall

EnvelopeNext ==
  \/ SurrealConnect(NoError, NoFault)
  \/ \E result \in AllEnvelopes : SurrealGetEpisodesOn(result)
  \/ \E episode_id \in EpisodeIds, result \in AllEnvelopes :
       SurrealGetOneEpisodeOn(episode_id, result)

EnvelopeSpec == EnvelopeInit /\ [][EnvelopeNext]_vars

(* ------------------------------ properties ---------------------------- *)
\* the operations that require a connection
GuardedOps ==
  { "get_driver", "get_session", "execute_query", "build_indices", "clear_all_data",
    "get_episodes", "get_one_episode" }

\* the last call ran on a live handle and met no transport failure
NoTransportFailure == last.preDriver # None /\ last.preOpen /\ last.fault = NoFault

\* C1: on a freshly constructed or closed adapter every guarded operation
\* fails with NotConnected, sends nothing to the server and leaves the
\* adapter without a handle.
C1_NotConnectedWhenDisconnected ==
  (last.op \in GuardedOps /\ last.prePhase \in {"fresh", "closed"}) =>
    /\ IsNotConnected(last.exc)
    /\ last.sent = <<>>
    /\ schema = last.preSchema /\ store = last.preStore
    /\ driver = None /\ last.preDriver = None
    /\ phase = last.prePhase

C1_Witness ==
  /\ last.op = "get_session" /\ kind = "surrealdb"
  /\ last.prePhase = "closed" /\ last.prev.op = "close"
  /\ IsNotConnected(last.exc)

\* C2 (as claimed): after a connect that failed on a Disconnected adapter,
\* every guarded operation fails with NotConnected.
C2_FailedConnectLeavesDisconnected ==
  (last.op \in GuardedOps /\ last.prePhase = "connect_failed") => IsNotConnected(last.exc)

\* C3 (as claimed): every connect whose authentication or probe fails, that
\* is whose native call on the new driver / client raises, raises
\* ConnectionFailure.
C3_ConnectFailsWithConnectionFailure ==
  (last.op = "connect" /\ last.fault.at > 0 /\ last.fault.err # Cancelled) =>
    IsConnectionFailure(last.exc)

\* C4 (as claimed): close never raises and leaves the adapter without a
\* handle; on a Disconnected adapter it makes no native call.
C4_CloseIdempotent ==
  last.op = "close" =>
    /\ last.exc = NoExc
    /\ driver = None
    /\ last.preDriver = None => last.sent = <<>>

\* C5: an execute_query that fails on a Connected adapter keeps the same
\* open handle, and a reachability query issued right after it, with no
\* connect in between, succeeds unless the transport fails again.
C5_FailedQueryKeepsConnection ==
  /\ (last.op = "execute_query" /\ last.prePhase = "connected" /\ last.exc # NoExc) =>
       /\ driver = last.preDriver /\ driver # None /\ driver \in opened
       /\ phase = "connected"
  /\ (/\ last.op = "execute_query" /\ last.prePhase = "connected"
      /\ last.prev.op = "execute_query" /\ ~last.prev.ok
      /\ last.arg = "RETURN_1" /\ last.fault = NoFault) =>
       last.exc = NoExc

C5_Witness ==
  /\ last.op = "execute_query" /\ last.prePhase = "connected"
  /\ last.prev.op = "execute_query" /\ ~last.prev.ok
  /\ last.exc = NoExc /\ last.value.tag \in {"cursor", "envelope"}

\* C6: when the driver / client raises inside execute_query the call raises
\* QueryExecutionFailure carrying the native error text; without a handle
\* the call raises NotConnected, which is not a QueryExecutionFailure.
C6_QueryFailureWrapsCause ==
  last.op = "execute_query" =>
    /\ (last.preDriver # None /\ last.native # NoError /\ last.native # Cancelled) =>
         /\ IsQueryExecutionFailure(last.exc)
         /\ Contains(last.exc.msg, last.native.text)
    /\ last.preDriver = None =>
         /\ IsNotConnected(last.exc)
         /\ ~IsQueryExecutionFailure(last.exc)

C6_Witness ==
  /\ last.op = "execute_query" /\ last.prePhase = "connected"
  /\ last.native = SyntaxError
  /\ IsQueryExecutionFailure(last.exc)

LogicalSchema(sch) ==
  { Obj(o.ent, o.field, IF o.kind \in {"type:string", "type:datetime", "type:object"}
                        THEN "notnull" ELSE o.kind) :
      o \in {x \in sch : x.kind # "table"} }

\* the schema of the adapter contract
RequiredSchema ==
  { Obj("Episode", "id", "unique"), Obj("Message", "id", "unique"), Obj("Entity", "id", "unique"),
    Obj("Message", "timestamp", "notnull"), Obj("Episode", "created_at", "notnull"),
    Obj("Episode", "created_at", "index"), Obj("Message", "timestamp", "index"),
    Obj("Message", "role", "index"), Obj("Entity", "type", "index"),
    Obj("Entity", "name", "index") }

\* C8 (as claimed): after a successful build_indices either backend enforces
\* exactly the contract's constraints.
C8_SameLogicalSchema ==
  (last.op = "build_indices" /\ last.exc = NoExc) => LogicalSchema(schema) = RequiredSchema

\* C9: get_episodes right after a successful clear_all_data returns the empty
\* sequence and raises nothing, unless the transport fails.
C9_ClearThenGetEpisodesEmpty ==
  (/\ last.op = "get_episodes" /\ NoTransportFailure
   /\ last.prev.op = "clear_all_data" /\ last.prev.ok) =>
    /\ last.exc = NoExc
    /\ last.value = Val("rows", None, <<>>)

C9_Witness ==
  /\ last.op = "get_episodes" /\ NoTransportFailure
  /\ last.prev.op = "clear_all_data" /\ last.prev.ok /\ last.prev.hadData
  /\ last.value = Val("rows", None, <<>>)

\* C10: get_one_episode with an id no stored Episode carries returns None
\* and raises nothing, unless the transport fails.
C10_MissingEpisodeIsNone ==
  (/\ last.op = "get_one_episode" /\ NoTransportFailure
   /\ \A e \in last.preStore : e.id # last.arg) =>
    /\ last.exc = NoExc
    /\ last.value = ReturnsNone

C10_Witness ==
  /\ last.op = "get_one_episode" /\ NoTransportFailure
  /\ last.preStore # {} /\ \A e \in last.preStore : e.id # last.arg
  /\ last.value = ReturnsNone

\* C11: get_episodes returns every stored Episode exactly once, newest
\* first (created_at descending), on either backend, unless the transport
\* fails.
C11_EpisodesNewestFirst ==
  (last.op = "get_episodes" /\ NoTransportFailure) =>
    /\ last.exc = NoExc
    /\ last.value.tag = "rows"
    /\ last.value.rows \in Listings(last.preStore)
    /\ \A i, j \in 1..Len(last.value.rows) :
         i < j => last.value.rows[i].created_at >= last.value.rows[j].created_at

C11_Witness ==
  /\ last.op = "get_episodes" /\ NoTransportFailure
  /\ Cardinality(last.preStore) = 3
  /\ Len(last.value.rows) = 3
  /\ last.value.rows[1].created_at > last.value.rows[2].created_at
  /\ last.value.rows[2].created_at > last.value.rows[3].created_at

\* the Episode a WRITE_EPISODE statement carries
WrittenBy(stmt) == Episode(stmt.arg, stmt.t)

\* C12: an Episode written through execute_query is stored with its id,
\* created_at, title and summary; get_one_episode(id) returns a stored
\* record with that id and its four attributes; get_episodes on a server
\* holding one Episode returns exactly that record.
C12_WriteReadRoundTrip ==
  /\ (last.op = "execute_query" /\ last.arg = "WRITE_EPISODE" /\ last.exc = NoExc) =>
       /\ WrittenBy(last.sent[1]) \in store
       /\ store = last.preStore \cup {WrittenBy(last.sent[1])}
  /\ (/\ last.op = "get_one_episode" /\ NoTransportFailure
      /\ \E e \in last.preStore : e.id = last.arg) =>
       /\ last.exc = NoExc
       /\ last.value.tag = "record"
       /\ \E e \in last.preStore :
            /\ e.id = last.arg
            /\ last.value.rows = << e >>
            /\ DOMAIN e = {"id", "created_at", "title", "summary"}
  /\ (/\ last.op = "get_episodes" /\ NoTransportFailure
      /\ \E e \in last.preStore : last.preStore = {e}) =>
       \E e \in last.preStore : last.value.rows = << e >>

C12_Witness ==
  /\ last.op = "get_one_episode" /\ NoTransportFailure
  /\ last.prev.op = "execute_query" /\ last.prev.arg = "WRITE_EPISODE" /\ last.prev.ok
  /\ ProvisionedSchema(kind) \subseteq last.preSchema
  /\ last.value.tag = "record"
  /\ last.value.rows[1].id = last.arg
  /\ last.value.rows[1].title = << "title", last.arg >>

\* the operations other than clear_all_data and execute_query
NonClearingOps ==
  { "connect", "close", "get_driver", "get_session", "build_indices", "get_episodes",
    "get_one_episode" }

\* C16 (as claimed): connect, close, get_driver, get_session, build_indices
\* with delete_existing false or true, get_episodes and get_one_episode
\* leave the stored Episodes unchanged.
C16_OnlyClearRemovesData ==
  last.op \in NonClearingOps => store = last.preStore

\* C16 (amended): the same operations leave the stored Episodes unchanged,
\* except SurrealDBAdapter.build_indices with delete_existing true, which
\* runs clear_all_data and leaves either every stored Episode or none.
C16_OnlyClearOrSurrealResetRemovesData ==
  last.op \in NonClearingOps =>
    IF kind = "surrealdb" /\ last.op = "build_indices" /\ last.arg = "TRUE"
    THEN /\ store \in {last.preStore, {}}
         /\ (last.exc = NoExc => store = {})
    ELSE store = last.preStore

C16_Witness ==
  /\ kind = "neo4j" /\ last.op = "build_indices" /\ last.arg = "TRUE"
  /\ NoTransportFailure /\ last.exc = NoExc
  /\ last.preStore # {} /\ store = last.preStore

\* the operations that send statements on a connection that exists
DataOps ==
  { "execute_query", "build_indices", "clear_all_data", "get_episodes", "get_one_episode" }

\* C17: within one call no statement is sent twice, and when a statement of
\* execute_query, build_indices, clear_all_data, get_episodes or
\* get_one_episode fails the call sends nothing after it and raises.
C17_NoRetryNoHiding ==
  /\ \A i, j \in 1..Len(last.sent) : i # j => last.sent[i] # last.sent[j]
  /\ (last.op \in DataOps /\ last.native # NoError) =>
       /\ last.exc # NoExc
       /\ last.value = NoVal
       /\ last.fault.at > 0 => Len(last.sent) = last.fault.at

C17_Witness ==
  /\ last.op = "build_indices" /\ last.fault = [at |-> 2, err |-> TransportError]
  /\ Len(last.sent) = 2
  /\ last.exc = Raw(TransportError)

\* C18: a cancellation raised at the await of a native call leaves the
\* method as CancelledError: it is neither wrapped as ConnectionFailure or
\* QueryExecutionFailure nor suppressed.
C18_CancellationPropagates ==
  last.native = Cancelled =>
    /\ last.exc = Raw(Cancelled)
    /\ ~IsConnectionFailure(last.exc)
    /\ ~IsQueryExecutionFailure(last.exc)
    /\ last.value = NoVal

C18_Witness ==
  /\ last.op = "execute_query" /\ last.prePhase = "connected"
  /\ last.native = Cancelled
  /\ last.exc.type = "CancelledError"

\* C13 (as claimed): create_db_adapter and get_adapter_class given 'neo4j'
\* or 'surrealdb' in any letter case raise nothing and choose the adapter
\* class of that backend, which defines the nine contract operations.
C13_FactoryIgnoresCase ==
  (made.fn \in FactoryFns /\ Lower(made.db_type) \in Backends) =>
    /\ made.exc = NoExc
    /\ made.cls = Lower(made.db_type)
    /\ ContractOps \subseteq MethodsOf(made.cls)

\* C14: for a db_type outside {neo4j, surrealdb} both factory functions
\* raise ValueError 'Unsupported database type: ...' and no adapter object
\* is constructed; for a db_type inside the set neither raises and the
\* object create_db_adapter constructs is of the class get_adapter_class
\* returns for the same db_type.
C14_ClosedSetOfTypes ==
  /\ [](/\ (made.fn \in FactoryFns /\ made.db_type \notin Backends) =>
            /\ made.exc = UnsupportedType(made.db_type)
            /\ made.cls = "" /\ made.inst = 0
        /\ (made.fn \in FactoryFns /\ made.db_type \in Backends) =>
            /\ made.exc = NoExc
            /\ made.cls = ClassFor(made.db_type).cls
            /\ made.fn = "create_db_adapter" =>
                 /\ made.inst \in 1..Len(instances)
                 /\ instances[made.inst].kind = ClassFor(made.db_type).cls)
  /\ [][(made' # made /\ made'.exc # NoExc) => instances' = instances]_vars

C14_Witness ==
  /\ made.fn = "create_db_adapter" /\ made.db_type = "mongo"
  /\ made.exc.type = "ValueError"
  /\ Len(instances) = 1 /\ instances[1].kind = "surrealdb"

\* C15: create_db_adapter constructs a new adapter object without a handle
\* and leaves the others as they are; a method call on one adapter object
\* leaves the attributes of every other one unchanged and their handles
\* open; no two adapter objects hold the same handle.
C15_InstancesDoNotInterfere ==
  /\ [](\A i, j \in 1..Len(instances) :
          (i # j /\ Instance(i).driver # None) => Instance(i).driver # Instance(j).driver)
  /\ [][(made' # made /\ made'.inst # 0) =>
          /\ instances'[made'.inst] = Attrs(made'.cls, None, "None", "fresh")
          /\ \A j \in 1..Len(instances) : instances'[j] = instances[j]
          /\ Attrs(kind, driver, scope, phase)' = Attrs(kind, driver, scope, phase)]_vars
  /\ [][calls' # calls =>
          \A j \in 1..Len(instances) :
            j # self =>
              /\ instances'[j] = instances[j]
              /\ instances[j].driver \in opened => instances[j].driver \in opened']_vars

C15_Witness ==
  /\ Len(instances) = 2 /\ self = 2
  /\ last.op = "close" /\ driver = None /\ last.preDriver # None
  /\ instances[1].driver # None /\ instances[1].driver \in opened
  /\ instances[1].phase = "connected"

\* the callers that are inside `async with self.driver.session()`
InSession == { t \in Tasks : tasks[t].pc \in {"entered", "exiting"} }

\* the methods of the Neo4j adapter that open a session for themselves
OwnSessionOps == SessionOps \cup {"connect"}

\* C19: connect, execute_query, build_indices, clear_all_data, get_episodes
\* and get_one_episode of the Neo4j adapter each open one session, which is
\* open while the call runs and closed once it has returned or raised; the
\* only open sessions are those of the calls in progress and those
\* get_session handed out; no two calls in progress use the same session.
C19_OneSessionPerCall ==
  /\ \A t \in InSession :
       /\ tasks[t].op \in OwnSessionOps
       /\ tasks[t].opens = 1
       /\ tasks[t].session \in sessions \ handed
  /\ \A t, u \in InSession : t # u => tasks[t].session # tasks[u].session
  /\ \A t \in Tasks :
       (tasks[t].pc = "idle" /\ tasks[t].result.op \in OwnSessionOps
        /\ tasks[t].result.session # 0) =>
         /\ tasks[t].result.opens = 1
         /\ tasks[t].result.session \notin sessions
  /\ sessions \ handed = { tasks[t].session : t \in InSession }

C19_Witness ==
  /\ tasks["a"].pc = "entered" /\ tasks["a"].op = "build_indices"
  /\ tasks["b"].pc = "idle" /\ tasks["b"].result.op = "execute_query"
  /\ tasks["b"].result.exc # NoExc /\ tasks["b"].result.session # 0
  /\ tasks["b"].result.session > tasks["a"].session
  /\ tasks["a"].session \in sessions

\* C20 (as claimed): when execute_query of the Neo4j adapter has returned a
\* cursor, the session that produced the cursor is open.
C20_CursorSessionOpenAtReturn ==
  \A t \in Tasks :
    (/\ tasks[t].pc = "idle" /\ tasks[t].result.op = "execute_query"
     /\ tasks[t].result.value.tag = "cursor") =>
      tasks[t].result.value.h \in sessions

\* C21 (as claimed): no operation of the SurrealDB adapter fails because of
\* the shape in which the client returns: whenever no native call raised,
\* the operation does not raise the TypeError of an await on a resolved
\* value.
C21_ShapeNeverFailsAnOperation ==
  (kind = "surrealdb" /\ last.native = NoError) => last.exc.type # "TypeError"

\* the positions in a sequence of statements whose verb is in verbs
Positions(sent, verbs) == { i \in 1..Len(sent) : sent[i].verb \in verbs }

DropVerbs == {"APOC_SCHEMA_ASSERT_DROP_ALL", "REMOVE_TABLE"}
DeclareVerbs ==
  { "CREATE_CONSTRAINT_IF_NOT_EXISTS", "CREATE_INDEX_IF_NOT_EXISTS", "DEFINE_TABLE",
    "DEFINE_FIELD", "DEFINE_INDEX" }

\* C23: build_indices(True) sends every drop statement (the one schema
\* reset on Neo4j, the six REMOVE TABLE on SurrealDB) before its first
\* declaring statement, and when it returns without raising every
\* constraint of the contract is present whatever schema existed before.
C23_DropsBeforeItDeclares ==
  (last.op = "build_indices" /\ last.arg = "TRUE" /\ last.preDriver # None) =>
    /\ \A i \in Positions(last.sent, DropVerbs), j \in Positions(last.sent, DeclareVerbs) : i < j
    /\ Positions(last.sent, DeclareVerbs) # {} =>
         Cardinality(Positions(last.sent, DropVerbs)) = (IF kind = "neo4j" THEN 1 ELSE 6)
    /\ last.exc = NoExc =>
         /\ RequiredSchema \subseteq LogicalSchema(schema)
         /\ schema = ProvisionedSchema(kind)

C23_Witness ==
  /\ kind = "surrealdb" /\ last.op = "build_indices" /\ last.arg = "TRUE"
  /\ last.exc = NoExc /\ last.preSchema # {}
  /\ Len(last.sent) = 32
  /\ last.sent[6].verb = "REMOVE_TABLE" /\ last.sent[7].verb = "DEFINE_TABLE"

\* C26 (as claimed): after a close that returned, every driver / client the
\* adapter constructed has been closed.
C26_NoHandleLeaked ==
  (last.op = "close" /\ last.exc = NoExc) => opened = {}

\* C27: Settings.get_db_type and DatabaseConfig.get_db_type return SURREALDB
\* exactly when the configured selector equals 'surrealdb' ignoring case and
\* NEO4J for every other selector, so neither function of the factory raises
\* its unsupported-type error on the value they return.
C27_ConfigSelectsSupportedType ==
  made.fn \in ConfigFns =>
    /\ made.exc = NoExc
    /\ made.cls = (IF Lower(made.db_type) = "surrealdb" THEN DatabaseType_SURREALDB
                                                        ELSE DatabaseType_NEO4J)
    /\ AdapterFor(made.cls).exc = NoExc
    /\ ClassFor(made.cls).exc = NoExc

C27_Witness ==
  /\ made.fn = "Settings.get_db_type"
  /\ made.db_type = "SurrealDB"
  /\ made.cls = DatabaseType_SURREALDB
  /\ AdapterFor(made.cls).cls = "surrealdb"

\* C25 (as claimed): when close races with a data operation on the same
\* adapter, the data operation runs entirely on a handle whose release close
\* has not begun, or fails with the not-connected error: no caller is at an
\* await of a statement on a handle that close has started to release.
C25_NoCallOnClosingHandle ==
  \A t \in Tasks :
    (tasks[t].pc = "entered" /\ tasks[t].op \in SessionOps) => tasks[t].handle \in opened

\* the callers with a native call outstanding on the shared client
Outstanding == { t \in Tasks : tasks[t].pc \in {"awaiting", "closing"} }

\* C24 (as claimed): the SurrealDB adapter serializes the use of its one
\* client: when operations are invoked concurrently on the same adapter, at
\* most one native client call is outstanding at any time.
C24_OneCallOutstanding ==
  kind = "surrealdb" => Cardinality(Outstanding) <= 1

\* the response holds no record: it is an empty list, or its first outcome
\* is a mapping without the result key or with an empty result array
NoRecords(result) ==
  /\ result.isList
  /\ \/ result.items = <<>>
     \/ /\ result.items[1].isMapping
        /\ \/ ~result.items[1].hasResult
           \/ ~result.items[1].isNull /\ result.items[1].rows = <<>>

\* the first outcome of the response holds a non-empty result array
HasRecords(result) ==
  /\ result.isList
  /\ result.items # <<>>
  /\ result.items[1].isMapping
  /\ result.items[1].hasResult
  /\ ~result.items[1].isNull
  /\ result.items[1].rows # <<>>

\* C22: when the response is an empty envelope, or its first outcome has no
\* result key or an empty result array, get_episodes returns an empty
\* sequence and get_one_episode returns None, and neither raises; when the
\* first outcome's result array is non-empty, get_episodes returns exactly
\* that array and get_one_episode returns its first element.
C22_EnvelopeUnwrapping ==
  last.response # <<>> =>
    LET result == last.response[1]
    IN /\ NoRecords(result) =>
            /\ last.exc = NoExc
            /\ last.op = "get_episodes" => last.value = Val("rows", None, <<>>)
            /\ last.op = "get_one_episode" => last.value = ReturnsNone
       /\ HasRecords(result) =>
            /\ last.exc = NoExc
            /\ last.op = "get_episodes" =>
                 last.value = Val("rows", None, result.items[1].rows)
            /\ last.op = "get_one_episode" =>
                 last.value = Val("record", None, << result.items[1].rows[1] >>)

C22_Witness ==
  /\ last.op = "get_episodes"
  /\ last.response = << Envelope(TRUE, << Outcome(TRUE, FALSE, FALSE, <<>>) >>) >>
  /\ last.exc = NoExc
  /\ last.value = Val("rows", None, <<>>)

\* C28 (as claimed): on a connected SurrealDB adapter get_episodes returns a
\* sequence, never None and never an error, for every shape of response: a
\* value that is not a list, an empty list, a list whose first element is a
\* mapping with the result key missing, null or empty, and a list whose first
\* element is not a mapping.
C28_GetEpisodesAlwaysReturnsSequence ==
  (last.op = "get_episodes" /\ last.response # <<>>) =>
    /\ last.exc = NoExc
    /\ last.value.tag = "rows"
====
